---------------------------- MODULE Spec2Model ----------------------------
(***************************************************************************)
(* Model of ai-preprint-forge: the project identity and artifact lifecycle *)
(* manager app/services/name_tracker.py (class NameTracker), the social    *)
(* media managers (SocialMediaManager.post_update), the LaTeX              *)
(* restructuring of app/utils/latex.py, and the workflow around them:      *)
(* PaperGenerator.generate_paper, GitManager, and the generate and delete  *)
(* handlers of the CLI and the API.                                        *)
(*                                                                         *)
(* Strings are sequences of one-character strings.  The persistent state   *)
(* is the cache file name_cache.json and the project directories below the *)
(* base directory; the volatile state is the in-memory mapping             *)
(* prompt_to_name of one NameTracker and the wall clock.  The repositories *)
(* of the GitHub account are a map from names to the tree pushed.          *)
(*                                                                         *)
(* The specifications share the state:                                     *)
(*   Spec        setup_project over several prompts and days (identity);   *)
(*   SpecFiles   setup_project with every content and regenerate flag,     *)
(*               within one day (artifact policy);                         *)
(*   SpecName    generate_paper_name applied once to each prompt of a      *)
(*               larger set, on every day (name generation);               *)
(*   SpecKey     _generate_prompt_key applied once to each prompt;         *)
(*   SpecStore   store_name, get_existing_name and has_name on a tracker   *)
(*               loaded from any cache file, the save failing or not;      *)
(*   SpecFaults  setup_project as one step, where mkdir and write_text     *)
(*               can raise (the cache save is taken to succeed);           *)
(*   SpecSteps   setup_project statement by statement, where the save,     *)
(*               mkdir and write_text can raise;                           *)
(*   SpecSocial  post_update applied once to every manager;                *)
(*   SpecLatex   restructure_latex_content applied to every text, and      *)
(*               once more to the text returned;                           *)
(*   SpecPaper   generate_paper: content, setup_project, PDF, repository,  *)
(*               where every external step can fail;                       *)
(*   SpecRequest generate_paper called with the regenerate flags of the    *)
(*               request and of the settings;                              *)
(*   SpecPosting generate_paper with the social step;                      *)
(*   SpecDelete  the delete command and route on generated projects;       *)
(*   SpecConcurrent  two requests of the POST route in one process.        *)
(* In Spec, SpecFiles and SpecName no I/O operation fails: every call of   *)
(* setup_project returns.                                                  *)
(***************************************************************************)
EXTENDS Integers, Sequences, FiniteSets, TLC

VARIABLES
    prompt_to_name,   \* NameTracker.prompt_to_name: fingerprint -> name
    name_cache_file,  \* base_dir/name_cache.json: whether it exists, its text
    dirs,             \* the directories that exist below base_dir
    files,            \* path -> text content of every variant file that exists
    now,              \* the wall clock: index of the current day in Calendar
    last,             \* the most recent call: arguments, result and log lines
    returned,         \* every (prompt, name) that setup_project has returned
    github            \* the user's GitHub repositories: name -> the tree pushed

vars == <<prompt_to_name, name_cache_file, dirs, files, now, last, returned, github>>

---------------------------------------------------------------------------
(* Bounds of the model *)

\* Longest prompt fragment enumerated character by character.
MaxLen == 2
\* Runs of letters of length SlugLimit - Slack .. SlugLimit + Slack are
\* put around the fragment, so that truncation happens on both sides of
\* the limit.
Slack == 1
\* Number of day changes of the wall clock.
MaxDays == 1

\* The slug length limit of generate_paper_name.
SlugLimit == 30

---------------------------------------------------------------------------
(* Characters, classified as Python's re and str classify them *)

LowerLetters == {"a", "b"}
UpperLetters == {"A", "B"}
Digits == {"0", "1", "2", "3", "4", "5", "6", "7", "8", "9"}
\* A letter outside ASCII (U+00E9, e with acute accent), written as one
\* token: \w of a str pattern is Unicode-aware.
NonAsciiLetters == {"U+00E9"}
\* \w: letters, digits and the underscore.
WordChars == LowerLetters \cup UpperLetters \cup Digits \cup NonAsciiLetters \cup {"_"}
\* \s, str.strip(): the space and the other whitespace characters.
SpaceChars == {" ", "\t"}
PunctChars == {"!"}

Alphabet == {"a", "A", "1", " ", "\t", "!", "_", "U+00E9"}

\* str.lower() on one character.
LowerChar(c) ==
    IF c = "A" THEN "a" ELSE IF c = "B" THEN "b" ELSE c

Min2(a, b) == IF a < b THEN a ELSE b

MaxOf(S) == CHOOSE m \in S : \A k \in S : k <= m

\* "x" * n
Rep(c, n) == [i \in 1..n |-> c]

---------------------------------------------------------------------------
(* str and re operations used by NameTracker *)

\* re.sub(r"[^\w\s]", "", s)
ReSubNonWordSpace(s) ==
    SelectSeq(s, LAMBDA c : c \in WordChars \cup SpaceChars)

\* s.replace(" ", "_"): only U+0020 is replaced.
ReplaceSpace(s) ==
    [i \in 1..Len(s) |-> IF s[i] = " " THEN "_" ELSE s[i]]

\* s.lower()
Lower(s) == [i \in 1..Len(s) |-> LowerChar(s[i])]

\* re.sub(r"_+", "_", s)
ReSubUnderscores(s) ==
    LET idx == SelectSeq([i \in 1..Len(s) |-> i],
                         LAMBDA i : ~(s[i] = "_" /\ i > 1 /\ s[i - 1] = "_"))
    IN  [k \in 1..Len(idx) |-> s[idx[k]]]

\* s.rfind(ch, start, end): the greatest 0-based index i, start <= i < end,
\* with s[i] = ch, or -1.
RFind(s, ch, start, end) ==
    LET hits == {i \in start..(Min2(end, Len(s)) - 1) : s[i + 1] = ch}
    IN  IF hits = {} THEN -1 ELSE MaxOf(hits)

\* s[:k] for k >= 0
Prefix(s, k) == SubSeq(s, 1, Min2(k, Len(s)))

\* s.rstrip(ch)
RStrip(s, ch) ==
    LET keep == {i \in 1..Len(s) : s[i] # ch}
    IN  IF keep = {} THEN <<>> ELSE SubSeq(s, 1, MaxOf(keep))

\* s.strip(): whitespace removed at both ends.
Strip(s) ==
    LET keep == {i \in 1..Len(s) : s[i] \notin SpaceChars}
    IN  IF keep = {} THEN <<>>
        ELSE SubSeq(s, CHOOSE m \in keep : \A k \in keep : m <= k, MaxOf(keep))

\* re.sub(r"\s+", " ", s): every run of whitespace becomes one space.
ReSubWhitespace(s) ==
    LET idx == SelectSeq([i \in 1..Len(s) |-> i],
                         LAMBDA i : ~(s[i] \in SpaceChars /\ i > 1
                                      /\ s[i - 1] \in SpaceChars))
    IN  [k \in 1..Len(idx) |->
            IF s[idx[k]] \in SpaceChars THEN " " ELSE s[idx[k]]]

\* hashlib.md5(s.encode("utf-8")).hexdigest(): a digest, taken to be free
\* of collisions on the prompts of the model.
Md5Hex(s) == <<"md5:">> \o s

---------------------------------------------------------------------------
(* The wall clock *)

\* The day with index i: 2009-12-31, 2010-01-01, 2010-01-02, ...
Calendar(i) ==
    IF i = 0 THEN [y |-> 2009, m |-> 12, d |-> 31]
             ELSE [y |-> 2010, m |-> 1, d |-> i]

DigitChar(k) ==
    <<"0", "1", "2", "3", "4", "5", "6", "7", "8", "9">>[k + 1]

Pad2(n) == <<DigitChar((n \div 10) % 10), DigitChar(n % 10)>>

\* datetime.strftime("%y%m%d")
Strftime(date) == Pad2(date.y % 100) \o Pad2(date.m) \o Pad2(date.d)

---------------------------------------------------------------------------
(* NameTracker: fingerprint and name generation *)

\* Mutant of GeneratePromptKey: the prompt is not lower-cased.
GeneratePromptKeyNoLower(prompt) ==
    Md5Hex(ReSubWhitespace(Strip(prompt)))

\* Mutant of GeneratePromptKey: whitespace runs are not collapsed.
GeneratePromptKeyNoCollapse(prompt) ==
    Md5Hex(Lower(Strip(prompt)))

\* NameTracker._generate_prompt_key
GeneratePromptKey(prompt) ==
    Md5Hex(ReSubWhitespace(Lower(Strip(prompt))))

\* Mutant of Slug: a long slug is always cut at SlugLimit characters,
\* also when it has an underscore before the limit.
SlugHardTruncate(prompt) ==
    LET clean == ReSubUnderscores(Lower(ReplaceSpace(ReSubNonWordSpace(prompt))))
    IN  RStrip(Prefix(clean, SlugLimit), "_")

\* The slug of generate_paper_name: everything before the time stamp.
Slug(prompt) ==
    LET clean == ReSubUnderscores(Lower(ReplaceSpace(ReSubNonWordSpace(prompt))))
        last_underscore == RFind(clean, "_", 0, SlugLimit)
        cut == IF Len(clean) > SlugLimit
               THEN IF last_underscore # -1
                    THEN Prefix(clean, last_underscore)
                    ELSE Prefix(clean, SlugLimit)
               ELSE clean
    IN  RStrip(cut, "_")

\* NameTracker.generate_paper_name, on the day `date`.
generate_paper_name(prompt, date) ==
    Slug(prompt) \o <<"_">> \o Strftime(date)

---------------------------------------------------------------------------
(* Inputs *)

\* All strings over Alphabet of length at most n.
RECURSIVE StringsUpTo(_)
StringsUpTo(n) ==
    IF n = 0 THEN {<<>>}
    ELSE LET shorter == StringsUpTo(n - 1)
         IN  shorter \cup {Append(s, c) : s \in shorter, c \in Alphabet}

RunLengths == {0} \cup ((SlugLimit - Slack)..(SlugLimit + Slack))

\* The prompts given to generate_paper_name: a fragment between two runs
\* of letters.
Prompts ==
    {Rep("a", i) \o s \o Rep("b", j) :
        s \in StringsUpTo(MaxLen), i \in RunLengths, j \in RunLengths}

\* Optional[...] values: None, or a value.
None == [some |-> FALSE]

Some(v) == [some |-> TRUE, value |-> v]

\* Mutant of Truthy: the test `is not None`, so "" counts as content.
TruthyNotNone(opt) == opt.some

\* Python truth value of an Optional[str]: None and "" are false.
Truthy(opt) == opt.some /\ opt.value # <<>>

\* The texts passed as md_content and latex_content.
Texts == {<<>>, <<"x">>, <<"y">>}

Contents == {None} \cup {Some(t) : t \in Texts}

\* The prompts given to setup_project: two that differ only in letter case
\* and whitespace, and one with another fingerprint and the same slug.
SetupPrompts ==
    {<<"a", " ", "a">>, <<" ", "A", "\t", " ", "a">>, <<"a", " ", "a", "!">>}

\* The prompts of the artifact policy: two fingerprints, one slug.
FilePrompts == {<<"a", " ", "a">>, <<"a", " ", "a", "!">>}

\* Contents that tell only whether a variant is passed.
PlainContents == {None, Some(<<"x">>)}

---------------------------------------------------------------------------
(* The file system below base_dir *)

\* base_dir / paper_name
ProjectDir(paper_name) == <<paper_name>>

\* Mutant of MdFile: a fixed file name in the project directory.
MdFileFixedName(paper_name) == <<paper_name, <<"p", "a", "p", "e", "r", ".md">>>>

\* project_dir / f"{paper_name}.md"
MdFile(paper_name) == <<paper_name, paper_name \o <<".md">>>>

\* project_dir / f"{paper_name}.tex"
TexFile(paper_name) == <<paper_name, paper_name \o <<".tex">>>>

\* path.exists()
Exists(fs, path) == path \in DOMAIN fs

\* d[k] = v, and path.write_text(v)
Put(f, k, v) == [x \in DOMAIN f \cup {k} |-> IF x = k THEN v ELSE f[x]]

---------------------------------------------------------------------------
(* NameTracker: the identity store *)

\* NameTracker.get_existing_name: dict.get of the fingerprint.
get_existing_name(mapping, prompt) ==
    LET prompt_key == GeneratePromptKey(prompt)
    IN  IF prompt_key \in DOMAIN mapping THEN Some(mapping[prompt_key]) ELSE None

\* NameTracker.has_name
has_name(mapping, prompt) == GeneratePromptKey(prompt) \in DOMAIN mapping

\* NameTracker.store_name: the mapping after prompt_to_name[prompt_key] = name.
store_name(mapping, prompt, name) == Put(mapping, GeneratePromptKey(prompt), name)

---------------------------------------------------------------------------
(* name_cache.json *)

\* A JSON text is a sequence of tokens: <<"{">>, one <<key, value>> for
\* each member, <<"}">>.
NoFile == [exists |-> FALSE, text |-> <<>>]

\* The members of the object that json.dump writes for a dict.
RECURSIVE JsonMembers(_)
JsonMembers(mapping) ==
    IF DOMAIN mapping = {} THEN <<>>
    ELSE LET k == CHOOSE x \in DOMAIN mapping : TRUE
             rest == [x \in DOMAIN mapping \ {k} |-> mapping[x]]
         IN  <<<<k, mapping[k]>>>> \o JsonMembers(rest)

\* json.dump(mapping, f): the text written.
JsonDump(mapping) == <<<<"{">>>> \o JsonMembers(mapping) \o <<<<"}">>>>

\* Whether json.load accepts the text as an object.
JsonParses(text) ==
    /\ Len(text) >= 2
    /\ text[1] = <<"{">>
    /\ text[Len(text)] = <<"}">>
    /\ \A i \in 2..(Len(text) - 1) : Len(text[i]) = 2

\* json.load(f) of a text that parses: the dict, a later member replacing
\* an earlier one with the same key.
JsonLoad(text) ==
    LET members == 2..(Len(text) - 1)
        keys == {text[i][1] : i \in members}
    IN  [k \in keys |-> text[MaxOf({i \in members : text[i][1] = k})][2]]

\* The texts a failed write leaves: the file was truncated when it was
\* opened, and only a beginning of the text reached it.
PartialTexts(text) == {SubSeq(text, 1, n) : n \in 0..(Len(text) - 1)}

\* NameTracker._load_cache: the mapping loaded; `readable` is false when
\* opening or reading the file raises.
LoadCache(file, readable) ==
    IF file.exists
    THEN IF readable /\ JsonParses(file.text) THEN JsonLoad(file.text) ELSE <<>>
    ELSE <<>>

\* The branch _load_cache takes.
LoadBranch(file, readable) ==
    IF file.exists
    THEN IF readable /\ JsonParses(file.text) THEN "loaded" ELSE "error"
    ELSE "missing"

\* NameTracker._save_cache: the file after json.dump of the mapping.
SaveCache(mapping) == [exists |-> TRUE, text |-> JsonDump(mapping)]

\* What can go wrong in _save_cache: nothing, open() raises, or the
\* write raises after the file was opened.
SaveFaults == {"none", "open", "write"}

\* NameTracker._save_cache: the files it can leave; every exception is
\* caught and logged.
SaveCacheOutcomes(file, mapping, fault) ==
    CASE fault = "none" -> {SaveCache(mapping)}
      [] fault = "open" -> {file}
      [] fault = "write" ->
            {[exists |-> TRUE, text |-> t] : t \in PartialTexts(JsonDump(mapping))}

---------------------------------------------------------------------------
(* NameTracker.setup_project *)

\* The branch taken for one variant, as the log line it writes.
VariantOutcome(content, exists, regenerate) ==
    IF Truthy(content)
    THEN IF exists
         THEN IF regenerate THEN "overwritten" ELSE "skipped"
         ELSE "created"
    ELSE "absent"

\* Mutant of WriteVariant: an existing file is overwritten whatever the
\* regenerate flag is.
WriteVariantAlways(fs, path, content, regenerate) ==
    IF Truthy(content) THEN Put(fs, path, content.value) ELSE fs

\* Mutant of WriteVariant: an existing file is never overwritten.
WriteVariantNever(fs, path, content, regenerate) ==
    IF Truthy(content) /\ ~Exists(fs, path)
    THEN Put(fs, path, content.value)
    ELSE fs

\* The files after the block that handles one variant.
WriteVariant(fs, path, content, regenerate) ==
    LET outcome == VariantOutcome(content, Exists(fs, path), regenerate)
    IN  IF outcome \in {"created", "overwritten"}
        THEN Put(fs, path, content.value)
        ELSE fs

\* Mutant of WriteVariants: the LaTeX block tests regenerate_markdown.
WriteVariantsOneFlag(fs, paper_name, md_content, latex_content, regenerate_markdown, regenerate_latex) ==
    WriteVariant(WriteVariant(fs, MdFile(paper_name), md_content,
                              regenerate_markdown),
                 TexFile(paper_name), latex_content, regenerate_markdown)

\* The files after the Markdown block and then the LaTeX block.
WriteVariants(fs, paper_name, md_content, latex_content, regenerate_markdown, regenerate_latex) ==
    WriteVariant(WriteVariant(fs, MdFile(paper_name), md_content,
                              regenerate_markdown),
                 TexFile(paper_name), latex_content, regenerate_latex)

\* Mutant of ReusesName: the stored name is never reused.
ReusesNameNever(existing_name) == FALSE

\* Whether setup_project reuses the stored name.
ReusesName(existing_name) == Truthy(existing_name)

\* The name setup_project works with.
ResolveName(mapping, prompt, date) ==
    LET existing_name == get_existing_name(mapping, prompt)
    IN  IF ReusesName(existing_name)
        THEN existing_name.value
        ELSE generate_paper_name(prompt, date)

NoCall ==
    [op |-> "none", prompt |-> <<>>, md_content |-> None, latex_content |-> None,
     regenerate_markdown |-> FALSE, regenerate_latex |-> FALSE,
     status |-> "-", name |-> <<>>, dir |-> <<>>, resolved |-> "-",
     md |-> "-", tex |-> "-"]

---------------------------------------------------------------------------
(* State machine *)

Init ==
    /\ prompt_to_name = <<>>
    /\ name_cache_file = NoFile
    /\ dirs = {}
    /\ files = <<>>
    /\ now = 0
    /\ last = NoCall
    /\ returned = {}
    /\ github = <<>>

\* The day changes.
Tick ==
    /\ now < MaxDays
    /\ now' = now + 1
    /\ UNCHANGED <<prompt_to_name, name_cache_file, dirs, files, last, returned, github>>

\* A call of NameTracker.setup_project that returns.
setup_project(prompt, md_content, latex_content, regenerate_markdown, regenerate_latex) ==
    \E existing_name \in {get_existing_name(prompt_to_name, prompt)} :
    \E paper_name \in {ResolveName(prompt_to_name, prompt, Calendar(now))} :
        LET reuse == ReusesName(existing_name)
            project_dir == ProjectDir(paper_name)
            md_file == MdFile(paper_name)
            tex_file == TexFile(paper_name)
        IN  /\ IF reuse
               THEN UNCHANGED <<prompt_to_name, name_cache_file>>
               ELSE /\ prompt_to_name' = store_name(prompt_to_name, prompt, paper_name)
                    /\ name_cache_file' = SaveCache(prompt_to_name')
            /\ dirs' = dirs \cup {project_dir}
            /\ files' = WriteVariants(files, paper_name, md_content, latex_content,
                                      regenerate_markdown, regenerate_latex)
            /\ last' = [op |-> "setup_project", prompt |-> prompt,
                        md_content |-> md_content,
                        latex_content |-> latex_content,
                        regenerate_markdown |-> regenerate_markdown,
                        regenerate_latex |-> regenerate_latex,
                        status |-> "ok", name |-> paper_name, dir |-> project_dir,
                        resolved |-> IF reuse THEN "reused" ELSE "generated",
                        md |-> VariantOutcome(md_content, Exists(files, md_file),
                                              regenerate_markdown),
                        tex |-> VariantOutcome(latex_content, Exists(files, tex_file),
                                               regenerate_latex)]
            /\ returned' = returned \cup {<<prompt, paper_name>>}
            /\ UNCHANGED <<now, github>>

\* The calls of setup_project with arguments from the given sets.
SetupCalls(prompts, contents, flags) ==
    \E prompt \in prompts, md_content \in contents, latex_content \in contents,
       regenerate_markdown \in flags, regenerate_latex \in flags :
        setup_project(prompt, md_content, latex_content,
                      regenerate_markdown, regenerate_latex)

Next ==
    \/ Tick
    \/ SetupCalls(SetupPrompts, PlainContents, {FALSE})

Spec == Init /\ [][Next]_vars

---------------------------------------------------------------------------
(* The artifact policy: every content and flag, within one day *)

NextFiles == SetupCalls(FilePrompts, Contents, BOOLEAN)

SpecFiles == Init /\ [][NextFiles]_vars

---------------------------------------------------------------------------
(* The name generator alone *)

\* A call of generate_paper_name that has not yet returned.
PendingName(prompt) ==
    [NoCall EXCEPT !.op = "generate_paper_name", !.prompt = prompt,
                   !.status = "pending"]

InitName ==
    /\ prompt_to_name = <<>>
    /\ name_cache_file = NoFile
    /\ dirs = {}
    /\ files = <<>>
    /\ now = 0
    /\ last \in {PendingName(prompt) : prompt \in Prompts}
    /\ returned = {}
    /\ github = <<>>

\* NameTracker.generate_paper_name(prompt) returns.
GeneratePaperName ==
    /\ last.op = "generate_paper_name"
    /\ last.status = "pending"
    /\ last' = [last EXCEPT !.status = "ok",
                            !.name = generate_paper_name(last.prompt, Calendar(now))]
    /\ UNCHANGED <<prompt_to_name, name_cache_file, dirs, files, now, returned, github>>

NextName ==
    \/ Tick
    \/ GeneratePaperName

\* generate_paper_name applied once to every prompt, on every day.
SpecName == InitName /\ [][NextName]_vars

---------------------------------------------------------------------------
(* The fingerprint alone *)

\* Longest prompt given to _generate_prompt_key.
KeyLen == 4

KeyAlphabet == {"a", "A", "b", " ", "\t"}

\* All strings over `chars` of length at most n.
RECURSIVE StringsOver(_, _)
StringsOver(chars, n) ==
    IF n = 0 THEN {<<>>}
    ELSE LET shorter == StringsOver(chars, n - 1)
         IN  shorter \cup {Append(s, c) : s \in shorter, c \in chars}

\* The prompts given to _generate_prompt_key.
KeyPrompts == StringsOver(KeyAlphabet, KeyLen)

\* A call of _generate_prompt_key that has not yet returned.
PendingKey(prompt) ==
    [op |-> "_generate_prompt_key", prompt |-> prompt, status |-> "pending",
     key |-> <<>>]

InitKey ==
    /\ prompt_to_name = <<>>
    /\ name_cache_file = NoFile
    /\ dirs = {}
    /\ files = <<>>
    /\ now = 0
    /\ last \in {PendingKey(prompt) : prompt \in KeyPrompts}
    /\ returned = {}
    /\ github = <<>>

\* NameTracker._generate_prompt_key(prompt) returns.
GeneratePromptKeyCall ==
    /\ last.op = "_generate_prompt_key"
    /\ last.status = "pending"
    /\ last' = [last EXCEPT !.status = "ok", !.key = GeneratePromptKey(last.prompt)]
    /\ UNCHANGED <<prompt_to_name, name_cache_file, dirs, files, now, returned, github>>

NextKey == GeneratePromptKeyCall

\* _generate_prompt_key applied once to every prompt.
SpecKey == InitKey /\ [][NextKey]_vars

---------------------------------------------------------------------------
(* The identity store: construction, store_name and the accessors *)

StorePrompts == {<<"a">>, <<" ", "A">>, <<"b">>}

StoreNames == {<<"n">>, <<"m">>}

\* NameTracker(base_dir): the mapping is loaded from name_cache.json.
NameTrackerInit(readable) ==
    /\ prompt_to_name' = LoadCache(name_cache_file, readable)
    /\ last' = [op |-> "NameTracker", prompt |-> <<>>, name |-> <<>>,
                status |-> "ok", result |-> None,
                log |-> LoadBranch(name_cache_file, readable)]
    /\ UNCHANGED <<name_cache_file, dirs, files, now, returned, github>>

\* NameTracker.store_name(prompt, name) returns.
StoreNameCall(prompt, name, fault) ==
    /\ prompt_to_name' = store_name(prompt_to_name, prompt, name)
    /\ name_cache_file' \in SaveCacheOutcomes(name_cache_file, prompt_to_name', fault)
    /\ last' = [op |-> "store_name", prompt |-> prompt, name |-> name,
                status |-> "ok", result |-> None,
                log |-> IF fault = "none" THEN "-" ELSE "Error saving name cache"]
    /\ UNCHANGED <<dirs, files, now, returned, github>>

\* Mutant of GetExistingName: the lookup inserts a default entry, as
\* dict.setdefault does.
GetExistingNameSetDefault(mapping, prompt) ==
    LET after == IF has_name(mapping, prompt) THEN mapping
                 ELSE store_name(mapping, prompt, <<>>)
    IN  [prompt_to_name |-> after, result |-> get_existing_name(after, prompt)]

\* NameTracker.get_existing_name: the mapping after the call and the value
\* returned.
GetExistingName(mapping, prompt) ==
    [prompt_to_name |-> mapping, result |-> get_existing_name(mapping, prompt)]

\* NameTracker.has_name: the mapping after the call and the value returned.
HasName(mapping, prompt) ==
    [prompt_to_name |-> mapping, result |-> has_name(mapping, prompt)]

\* NameTracker.get_existing_name(prompt) returns.
GetExistingNameCall(prompt) ==
    \E call \in {GetExistingName(prompt_to_name, prompt)} :
        /\ prompt_to_name' = call.prompt_to_name
        /\ last' = [op |-> "get_existing_name", prompt |-> prompt, name |-> <<>>,
                    status |-> "ok", result |-> call.result, log |-> "-"]
        /\ UNCHANGED <<name_cache_file, dirs, files, now, returned, github>>

\* NameTracker.has_name(prompt) returns.
HasNameCall(prompt) ==
    \E call \in {HasName(prompt_to_name, prompt)} :
        /\ prompt_to_name' = call.prompt_to_name
        /\ last' = [op |-> "has_name", prompt |-> prompt, name |-> <<>>,
                    status |-> "ok", result |-> call.result, log |-> "-"]
        /\ UNCHANGED <<name_cache_file, dirs, files, now, returned, github>>

NextStore ==
    \/ \E readable \in BOOLEAN : NameTrackerInit(readable)
    \/ \E prompt \in StorePrompts, name \in StoreNames, fault \in SaveFaults :
          StoreNameCall(prompt, name, fault)
    \/ \E prompt \in StorePrompts : GetExistingNameCall(prompt)
    \/ \E prompt \in StorePrompts : HasNameCall(prompt)
    \/ SetupCalls({<<"a">>}, {Some(<<"x">>)}, {FALSE})

\* One base directory; trackers are constructed on it again and again, and
\* saving the cache file can fail.
SpecStore == Init /\ [][NextStore]_vars

---------------------------------------------------------------------------
(* setup_project when mkdir and write_text can raise *)

\* The first I/O operation of a call that raises, if it is executed.
IoFaults == {"none", "mkdir", "md", "tex"}

\* The contents of the calls that can fail: two characters long for
\* Markdown, so that a failed write can leave one of them, and one
\* character long for LaTeX.
FaultContents == {None, Some(<<"x", "y">>)}

FaultLatexContents == {None, Some(<<"x">>)}

FaultPrompt == <<"a", " ", "a">>

\* path.write_text(text) raises: open() failed and the file is as it was,
\* or the file was truncated and only a beginning of the text reached it.
FailedWriteOutcomes(fs, path, text) ==
    {fs} \cup {Put(fs, path, t) : t \in PartialTexts(text)}

\* Mutant of VariantBlock: an existing file is opened for appending.
VariantBlockAppend(fs, path, content, regenerate, fails) ==
    IF VariantOutcome(content, Exists(fs, path), regenerate) \in {"created", "overwritten"}
    THEN IF fails
         THEN {[files |-> f, raised |-> TRUE] :
                   f \in FailedWriteOutcomes(fs, path, content.value)}
         ELSE {[files |-> Put(fs, path, (IF Exists(fs, path) THEN fs[path] ELSE <<>>)
                                        \o content.value),
                raised |-> FALSE]}
    ELSE {[files |-> fs, raised |-> FALSE]}

\* The block of one variant: the files it can leave, and whether it raised.
VariantBlock(fs, path, content, regenerate, fails) ==
    IF VariantOutcome(content, Exists(fs, path), regenerate) \in {"created", "overwritten"}
    THEN IF fails
         THEN {[files |-> f, raised |-> TRUE] :
                   f \in FailedWriteOutcomes(fs, path, content.value)}
         ELSE {[files |-> Put(fs, path, content.value), raised |-> FALSE]}
    ELSE {[files |-> fs, raised |-> FALSE]}

\* What a file holds, if it exists.  In the record of a call, md and tex
\* are what the two files held when the call began, and `after` is the
\* status of the call before it when that had the same arguments.
ContentAt(fs, path) == IF Exists(fs, path) THEN Some(fs[path]) ELSE None

\* A call of NameTracker.setup_project, which returns or raises.
SetupProjectIO(prompt, md_content, latex_content, regenerate_markdown, regenerate_latex, fault) ==
    \E existing_name \in {get_existing_name(prompt_to_name, prompt)} :
    \E paper_name \in {ResolveName(prompt_to_name, prompt, Calendar(now))} :
    \E md \in VariantBlock(files, MdFile(paper_name), md_content, regenerate_markdown, fault = "md") :
    \E tex \in VariantBlock(md.files, TexFile(paper_name), latex_content, regenerate_latex, fault = "tex") :
        LET reuse == ReusesName(existing_name)
            project_dir == ProjectDir(paper_name)
            raised == fault = "mkdir" \/ md.raised \/ tex.raised
        IN  /\ IF reuse
               THEN UNCHANGED <<prompt_to_name, name_cache_file>>
               ELSE /\ prompt_to_name' = store_name(prompt_to_name, prompt, paper_name)
                    /\ name_cache_file' = SaveCache(prompt_to_name')
            /\ dirs' = IF fault = "mkdir" THEN dirs ELSE dirs \cup {project_dir}
            /\ files' = IF fault = "mkdir" THEN files
                        ELSE IF md.raised THEN md.files ELSE tex.files
            /\ last' = [op |-> "setup_project", prompt |-> prompt,
                        md_content |-> md_content,
                        latex_content |-> latex_content,
                        regenerate_markdown |-> regenerate_markdown,
                        regenerate_latex |-> regenerate_latex,
                        status |-> IF raised THEN "raised" ELSE "ok",
                        name |-> paper_name, dir |-> project_dir,
                        resolved |-> IF reuse THEN "reused" ELSE "generated",
                        md |-> ContentAt(files, MdFile(paper_name)),
                        tex |-> ContentAt(files, TexFile(paper_name)),
                        after |-> IF /\ last.op = "setup_project"
                                     /\ last.prompt = prompt
                                     /\ last.md_content = md_content
                                     /\ last.latex_content = latex_content
                                     /\ last.regenerate_markdown = regenerate_markdown
                                     /\ last.regenerate_latex = regenerate_latex
                                  THEN last.status ELSE "-"]
            /\ returned' = IF raised THEN returned
                           ELSE returned \cup {<<prompt, paper_name>>}
            /\ UNCHANGED <<now, github>>

NextFaults ==
    \/ Tick
    \/ \E md_content \in FaultContents, latex_content \in FaultLatexContents,
          regenerate_markdown \in BOOLEAN, regenerate_latex \in BOOLEAN,
          fault \in IoFaults :
            SetupProjectIO(FaultPrompt, md_content, latex_content,
                           regenerate_markdown, regenerate_latex, fault)

\* One prompt, set up again and again over the days, with I/O failures.
SpecFaults == Init /\ [][NextFaults]_vars

---------------------------------------------------------------------------
(* setup_project statement by statement *)

\* The statements of the try block, in the order of the source: name
\* resolution, mkdir, the Markdown block, the LaTeX block, return.
StepOrder == <<"resolve", "mkdir", "md", "tex", "return">>

\* Mutant of StepAfter: the except clause swallows the exception and the
\* call goes on with the next statement.
StepAfterSwallow(pc, raised) ==
    StepOrder[1 + CHOOSE i \in 1..4 : StepOrder[i] = pc]

\* Mutant of StepAfter: the two blocks that write come before mkdir.
StepAfterWriteFirst(pc, raised) ==
    IF raised THEN "raise"
    ELSE CASE pc = "resolve" -> "md"
           [] pc = "md" -> "tex"
           [] pc = "tex" -> "mkdir"
           [] pc = "mkdir" -> "return"

\* Where control goes after the statement at pc: to the next statement,
\* or, when it raised, to the except clause, which logs and re-raises.
StepAfter(pc, raised) ==
    IF raised THEN "raise"
    ELSE StepOrder[1 + CHOOSE i \in 1..4 : StepOrder[i] = pc]

\* The call after the statement at its pc: `done` gains the statement when
\* it completed, `fault` names the I/O operation that raised.
Advance(call, raised) ==
    LET next == StepAfter(call.pc, raised)
    IN  [call EXCEPT !.pc = next,
                     !.status = IF next = "raise" THEN "raised" ELSE @,
                     !.fault = IF raised THEN call.pc ELSE @,
                     !.done = IF raised THEN @ ELSE @ \cup {call.pc}]

\* A call of setup_project is in progress, at statement pc.
Running(pc) ==
    last.op = "setup_project" /\ last.status = "running" /\ last.pc = pc

\* The caller calls setup_project; no other call is in progress.
CallSetupProject(prompt, md_content, latex_content, regenerate_markdown, regenerate_latex) ==
    /\ ~(last.op = "setup_project" /\ last.status = "running")
    /\ last' = [op |-> "setup_project", prompt |-> prompt,
                md_content |-> md_content, latex_content |-> latex_content,
                regenerate_markdown |-> regenerate_markdown,
                regenerate_latex |-> regenerate_latex,
                status |-> "running", pc |-> "resolve", name |-> <<>>,
                dir |-> <<>>, resolved |-> "-", fault |-> "-", done |-> {}]
    /\ UNCHANGED <<prompt_to_name, name_cache_file, dirs, files, now, returned, github>>

\* existing_name = self.get_existing_name(prompt), and the branch on it.
ResolveNameStep ==
    /\ Running("resolve")
    /\ \E existing_name \in {get_existing_name(prompt_to_name, last.prompt)} :
       \E paper_name \in {ResolveName(prompt_to_name, last.prompt, Calendar(now))} :
          /\ IF ReusesName(existing_name)
             THEN UNCHANGED <<prompt_to_name, name_cache_file>>
             ELSE /\ prompt_to_name' = store_name(prompt_to_name, last.prompt, paper_name)
                  /\ \E fault \in SaveFaults :
                        name_cache_file' \in
                            SaveCacheOutcomes(name_cache_file, prompt_to_name', fault)
          /\ last' = [Advance(last, FALSE) EXCEPT
                         !.name = paper_name,
                         !.dir = ProjectDir(paper_name),
                         !.resolved = IF ReusesName(existing_name)
                                      THEN "reused" ELSE "generated"]
    /\ UNCHANGED <<dirs, files, now, returned, github>>

\* project_dir.mkdir(exist_ok=True)
MkdirStep(fails) ==
    /\ Running("mkdir")
    /\ dirs' = IF fails THEN dirs ELSE dirs \cup {last.dir}
    /\ last' = Advance(last, fails)
    /\ UNCHANGED <<prompt_to_name, name_cache_file, files, now, returned, github>>

\* The Markdown block.
MarkdownStep(fails) ==
    /\ Running("md")
    /\ \E block \in VariantBlock(files, MdFile(last.name), last.md_content, last.regenerate_markdown, fails) :
          /\ files' = block.files
          /\ last' = Advance(last, block.raised)
    /\ UNCHANGED <<prompt_to_name, name_cache_file, dirs, now, returned, github>>

\* The LaTeX block.
LatexStep(fails) ==
    /\ Running("tex")
    /\ \E block \in VariantBlock(files, TexFile(last.name), last.latex_content, last.regenerate_latex, fails) :
          /\ files' = block.files
          /\ last' = Advance(last, block.raised)
    /\ UNCHANGED <<prompt_to_name, name_cache_file, dirs, now, returned, github>>

\* return project_dir, paper_name
ReturnStep ==
    /\ Running("return")
    /\ last' = [last EXCEPT !.status = "ok", !.pc = "returned"]
    /\ returned' = returned \cup {<<last.prompt, last.name>>}
    /\ UNCHANGED <<prompt_to_name, name_cache_file, dirs, files, now, github>>

NextSteps ==
    \/ \E md_content \in FaultContents, latex_content \in FaultLatexContents,
          regenerate_markdown \in BOOLEAN, regenerate_latex \in BOOLEAN :
            CallSetupProject(FaultPrompt, md_content, latex_content,
                             regenerate_markdown, regenerate_latex)
    \/ ResolveNameStep
    \/ \E fails \in BOOLEAN : MkdirStep(fails)
    \/ \E fails \in BOOLEAN : MarkdownStep(fails)
    \/ \E fails \in BOOLEAN : LatexStep(fails)
    \/ ReturnStep

\* One caller; every statement of setup_project is a step, and mkdir and
\* write_text can raise.
SpecSteps == Init /\ [][NextSteps]_vars

---------------------------------------------------------------------------
(* SocialMediaManager.post_update *)

\* The platforms a manager creates, in the order it appends them.
PlatformNames == <<"Twitter", "LinkedIn", "Facebook">>

\* What platform.post(message) does: return True, return False, raise.
PostOutcomes == {"true", "false", "raise"}

\* A platform after its constructor and setup(): setup configures only an
\* enabled platform.
PlatformStates ==
    {st \in [enabled : BOOLEAN, configured : BOOLEAN, post : PostOutcomes] :
        st.configured => st.enabled}

Platform(i, st) ==
    [name |-> PlatformNames[i], enabled |-> st.enabled,
     configured |-> st.configured, post |-> st.post]

\* app/services/social_media: a platform is appended when social media is
\* enabled globally or the platform's own switch is on.
AppPlatforms(global_enabled, states) ==
    LET kept == SelectSeq(<<1, 2, 3>>,
                          LAMBDA i : global_enabled \/ states[i].enabled)
    IN  [k \in 1..Len(kept) |-> Platform(kept[k], states[kept[k]])]

\* social_media: the three platforms are created when social media is
\* enabled globally, and none otherwise.
LegacyPlatforms(enabled, states) ==
    IF enabled THEN [i \in 1..3 |-> Platform(i, states[i])] ELSE <<>>

\* The managers after construction; `enabled` is ENABLE_SOCIAL_MEDIA.
Managers ==
    {[kind |-> "app", enabled |-> g, platforms |-> AppPlatforms(g, st)] :
        g \in BOOLEAN, st \in [1..3 -> PlatformStates]}
    \cup
    {[kind |-> "legacy", enabled |-> g, platforms |-> LegacyPlatforms(g, st)] :
        g \in BOOLEAN, st \in [1..3 -> PlatformStates]}

\* post_update before its loop, and when it returns early.
NoPosts == [success |-> FALSE, posts |-> <<>>, sleeps |-> 0]

\* Mutant of PostLoop: the try statement is around the whole loop, so an
\* exception ends it.
RECURSIVE PostLoopStopOnRaise(_, _, _)
PostLoopStopOnRaise(active, i, acc) ==
    IF i > Len(active) THEN acc
    ELSE LET platform == active[i]
             posted == [acc EXCEPT !.posts = Append(@, platform.name)]
             pause == IF i # Len(active) THEN 1 ELSE 0
         IN  CASE platform.post = "true" ->
                    PostLoopStopOnRaise(active, i + 1,
                        [posted EXCEPT !.success = TRUE, !.sleeps = @ + pause])
               [] platform.post = "false" ->
                    PostLoopStopOnRaise(active, i + 1,
                        [posted EXCEPT !.sleeps = @ + pause])
               [] platform.post = "raise" -> posted

\* The loop of post_update from the i-th active platform on: the post is
\* attempted; True sets success; unless the platform is the last one the
\* loop then sleeps; an exception is logged and the loop goes on.
RECURSIVE PostLoop(_, _, _)
PostLoop(active, i, acc) ==
    IF i > Len(active) THEN acc
    ELSE LET platform == active[i]
             posted == [acc EXCEPT !.posts = Append(@, platform.name)]
             pause == IF i # Len(active) THEN 1 ELSE 0
         IN  CASE platform.post = "true" ->
                    PostLoop(active, i + 1,
                        [posted EXCEPT !.success = TRUE, !.sleeps = @ + pause])
               [] platform.post = "false" ->
                    PostLoop(active, i + 1, [posted EXCEPT !.sleeps = @ + pause])
               [] platform.post = "raise" ->
                    PostLoop(active, i + 1, posted)

\* SocialMediaManager.post_update: the value returned, the platforms
\* posted to in order, and the number of sleeps.
PostUpdate(manager) ==
    LET active == SelectSeq(manager.platforms,
                            LAMBDA pl : pl.enabled /\ pl.configured)
    IN  IF manager.kind = "legacy" /\ ~manager.enabled THEN NoPosts
        ELSE IF manager.platforms = <<>> THEN NoPosts
        ELSE IF active = <<>> THEN NoPosts
        ELSE PostLoop(active, 1, NoPosts)

\* A call of post_update that has not yet returned.
PendingPost(manager) ==
    [op |-> "post_update", manager |-> manager, status |-> "pending",
     result |-> FALSE, posts |-> <<>>, sleeps |-> 0]

InitSocial ==
    /\ prompt_to_name = <<>>
    /\ name_cache_file = NoFile
    /\ dirs = {}
    /\ files = <<>>
    /\ now = 0
    /\ last \in {PendingPost(manager) : manager \in Managers}
    /\ returned = {}
    /\ github = <<>>

\* manager.post_update(message) returns.
PostUpdateCall ==
    /\ last.op = "post_update"
    /\ last.status = "pending"
    /\ \E out \in {PostUpdate(last.manager)} :
          last' = [last EXCEPT !.status = "ok", !.result = out.success,
                               !.posts = out.posts, !.sleeps = out.sleeps]
    /\ UNCHANGED <<prompt_to_name, name_cache_file, dirs, files, now, returned, github>>

NextSocial == PostUpdateCall

\* post_update applied once to every manager.
SpecSocial == InitSocial /\ [][NextSocial]_vars

---------------------------------------------------------------------------
(* app/utils/latex.py: restructure_latex_content *)

\* A text is a sequence of lines, a line a sequence of tokens: a LaTeX
\* command, a space, a piece of other text, or a Markdown code fence (three
\* grave accents, alone or followed by "latex"), written "[fence]".

\* Most lines of an input text.
LatexLen == 3

\* LATEX_PREAMBLE as lines; it ends with a newline, so that joining it
\* with what follows leaves an empty line.
LatexPreamble ==
    << <<"\\documentclass", "{article}">>,
       <<"\\usepackage[margin=1in]{geometry}">>,
       <<"\\usepackage{amsmath,amssymb,graphicx}">>,
       <<"\\usepackage[T1]{fontenc}">>,
       <<"\\usepackage[utf8]{inputenc}">>,
       <<"\\usepackage{lmodern}">>,
       <<"\\usepackage{textcomp}">>,
       <<"\\usepackage{lastpage}">>,
       <<>> >>

\* The lines of the input texts.
LatexLineShapes ==
    { <<"\\documentclass", "{article}">>,
      <<"\\title{", "t">>, <<"\\author{", "t">>, <<"\\date{", "t">>,
      <<"\\begin{document}">>, <<" ", "\\begin{document}">>,
      <<"\\end{document}">>, <<"t", "\\end{document}">>,
      <<"\\maketitle">>, <<"t">>, <<"u">>, <<>>,
      <<"[fence]latex">>, <<"t", "[fence]">> }

\* The input texts: up to LatexLen lines.
LatexTexts == StringsOver(LatexLineShapes, LatexLen)

\* The two replace calls: the opening fence and the fence become "".
StripFences(line) == SelectSeq(line, LAMBDA tok : tok \notin {"[fence]latex", "[fence]"})

\* clean_latex_content: the fences are removed, and then the lines that
\* are blank.
clean_latex_content(content) ==
    SelectSeq([i \in 1..Len(content) |-> StripFences(content[i])],
              LAMBDA line : Strip(line) # <<>>)

\* line.strip().startswith(command)
StartsWith(line, command) ==
    Strip(line) # <<>> /\ Strip(line)[1] = command

\* Before the loop of restructure_latex_content.
LoopStart ==
    [skip_mode |-> FALSE, title |-> None, author |-> None, date |-> None,
     body_content |-> <<>>]

\* The loop of restructure_latex_content from the i-th line on.
RECURSIVE RestructureLoop(_, _, _)
RestructureLoop(lines, i, st) ==
    IF i > Len(lines) THEN st
    ELSE LET line == lines[i]
         IN  IF StartsWith(line, "\\documentclass")
             THEN RestructureLoop(lines, i + 1, [st EXCEPT !.skip_mode = TRUE])
             ELSE IF StartsWith(line, "\\begin{document}")
             THEN RestructureLoop(lines, i + 1, [st EXCEPT !.skip_mode = FALSE])
             ELSE IF StartsWith(line, "\\end{document}")
             THEN RestructureLoop(lines, i + 1, st)
             ELSE IF st.skip_mode
             THEN RestructureLoop(lines, i + 1,
                      IF StartsWith(line, "\\title{")
                      THEN [st EXCEPT !.title = Some(line)]
                      ELSE IF StartsWith(line, "\\author{")
                      THEN [st EXCEPT !.author = Some(line)]
                      ELSE IF StartsWith(line, "\\date{")
                      THEN [st EXCEPT !.date = Some(line)]
                      ELSE st)
             ELSE IF Strip(line) # <<>>
             THEN RestructureLoop(lines, i + 1,
                      [st EXCEPT !.body_content = Append(@, line)])
             ELSE RestructureLoop(lines, i + 1, st)

\* A list with the value when it is true, and the empty list otherwise.
IfTruthy(opt) == IF Truthy(opt) THEN <<opt.value>> ELSE <<>>

\* restructure_latex_content: the lines of the text returned.
restructure_latex_content(content) ==
    LET st == RestructureLoop(clean_latex_content(content), 1, LoopStart)
    IN  LatexPreamble
        \o IfTruthy(st.title) \o IfTruthy(st.author) \o IfTruthy(st.date)
        \o << <<"\\begin{document}">> >>
        \o (IF Truthy(st.title) \/ Truthy(st.author) \/ Truthy(st.date)
            THEN << <<"\\maketitle">> >> ELSE <<>>)
        \o st.body_content
        \o << <<"\\end{document}">> >>

\* A call of restructure_latex_content that has not yet returned.
PendingRestructure(content) ==
    [op |-> "restructure_latex_content", content |-> content,
     status |-> "pending", out |-> <<>>]

InitLatex ==
    /\ prompt_to_name = <<>>
    /\ name_cache_file = NoFile
    /\ dirs = {}
    /\ files = <<>>
    /\ now = 0
    /\ last \in {PendingRestructure(content) : content \in LatexTexts}
    /\ returned = {}
    /\ github = <<>>

\* restructure_latex_content(content) returns.
RestructureCall ==
    /\ last.op = "restructure_latex_content"
    /\ last.status = "pending"
    /\ last' = [last EXCEPT !.status = "ok",
                            !.out = restructure_latex_content(last.content)]
    /\ UNCHANGED <<prompt_to_name, name_cache_file, dirs, files, now, returned, github>>

\* restructure_latex_content is called on the text it returned, as a
\* second run of generate_pdf_from_latex does with the file the first run
\* wrote back.
RestructureAgain ==
    /\ last.op = "restructure_latex_content"
    /\ last.status = "ok"
    /\ last' = [last EXCEPT !.status = "again",
                            !.content = last.out,
                            !.out = restructure_latex_content(last.out)]
    /\ UNCHANGED <<prompt_to_name, name_cache_file, dirs, files, now, returned, github>>

NextLatex ==
    \/ RestructureCall
    \/ RestructureAgain

\* restructure_latex_content applied to every text, and once more to the
\* text returned.
SpecLatex == InitLatex /\ [][NextLatex]_vars

---------------------------------------------------------------------------
(* app/services/git_manager.py and generate_pdf_from_latex *)

\* Texts of the workflow are sequences of lines, as in the section above.

\* project_dir / f"{paper_name}.pdf"
PdfFile(paper_name) == <<paper_name, paper_name \o <<".pdf">>>>

\* project_dir / "README.md"
ReadmeFile(paper_name) == <<paper_name, <<"README.md">>>>

\* project_dir / ".gitignore"
GitignoreFile(paper_name) == <<paper_name, <<".gitignore">>>>

\* project_dir / ".git": the local repository, held as its last commit.
GitFolder(paper_name) == <<paper_name, <<".git">>>>

\* The text _ensure_gitignore writes, and the README the model answers.
GitignoreContent == << <<"# LaTeX">> >>

ReadmeContent == << <<"# README">> >>

\* repo.html_url
HtmlUrl(paper_name) == <<"https://github.com/user/">> \o paper_name

\* The files of the working tree that git add -A stages: every file of
\* the project directory but the repository itself.  The patterns of
\* .gitignore match none of the files of the model.
WorkTree(fs, paper_name) ==
    LET tracked == {path \in DOMAIN fs :
                       path[1] = paper_name /\ path # GitFolder(paper_name)}
    IN  [path \in tracked |-> fs[path]]

\* generate_pdf_from_latex: the files after it and the value returned.
\* The .tex file is read, restructured and written back; pdflatex then
\* exits with 0 and leaves a PDF, or with another code.  The PDF carries
\* the time of its creation (stamp).
generate_pdf_from_latex(fs, paper_name, pdflatex_ok, stamp) ==
    LET tex_file == TexFile(paper_name)
    IN  IF ~Exists(fs, tex_file) THEN [files |-> fs, result |-> FALSE]
        ELSE LET restructured_content == restructure_latex_content(fs[tex_file])
                 written == Put(fs, tex_file, restructured_content)
             IN  IF pdflatex_ok
                 THEN [files |-> Put(written, PdfFile(paper_name),
                                     [tex |-> restructured_content, stamp |-> stamp]),
                       result |-> TRUE]
                 ELSE [files |-> written, result |-> FALSE]

\* GitManager._ensure_gitignore
EnsureGitignore(fs, paper_name) ==
    IF Exists(fs, GitignoreFile(paper_name)) THEN fs
    ELSE Put(fs, GitignoreFile(paper_name), GitignoreContent)

\* GitManager._commit_and_push: git init when there is no .git folder,
\* git add -A, git commit, git push; every command runs with check=True.
\* git commit exits with 1 when the staged tree is the tree of the last
\* commit.
CommitAndPush(fs, hub, paper_name, push_ok) ==
    LET git == IF Exists(fs, GitFolder(paper_name))
               THEN fs[GitFolder(paper_name)] ELSE [head |-> None]
        fs1 == EnsureGitignore(Put(fs, GitFolder(paper_name), git), paper_name)
        tree == WorkTree(fs1, paper_name)
        fs2 == Put(fs1, GitFolder(paper_name), [head |-> Some(tree)])
    IN  IF git.head = Some(tree)
        THEN [files |-> fs1, github |-> hub, raised |-> TRUE]
        ELSE IF push_ok
        THEN [files |-> fs2, github |-> Put(hub, paper_name, tree), raised |-> FALSE]
        ELSE [files |-> fs2, github |-> hub, raised |-> TRUE]

\* GitManager.setup_repo: .gitignore and README.md are created when
\* missing (the README by OpenAI, which can raise); an existing
\* repository is updated, and a new one created otherwise.
setup_repo(fs, hub, paper_name, readme_ok, push_ok) ==
    LET fs1 == EnsureGitignore(fs, paper_name)
        has_readme == Exists(fs1, ReadmeFile(paper_name))
        fs2 == IF has_readme THEN fs1
               ELSE Put(fs1, ReadmeFile(paper_name), ReadmeContent)
        hub1 == IF paper_name \in DOMAIN hub THEN hub
                ELSE Put(hub, paper_name, <<>>)
    IN  IF ~has_readme /\ ~readme_ok
        THEN [files |-> fs1, github |-> hub, raised |-> TRUE]
        ELSE CommitAndPush(fs2, hub1, paper_name, push_ok)

---------------------------------------------------------------------------
(* PaperGenerator.generate_paper, called by the generate command and the
   POST route *)

\* Most calls of generate_paper in a behaviour.
MaxRuns == 2

\* The prompt of the workflow.
PaperPrompt == <<"a", " ", "a">>

\* What OpenAI answers for the Markdown paper.
MarkdownReplies == { << <<"x">> >>, << <<"y">> >> }

\* What OpenAI answers for the LaTeX paper, after strip(): nothing, a
\* body alone, and a document with a title.
LatexReplies ==
    { <<>>,
      << <<"t">> >>,
      << <<"\\documentclass", "{article}">>, <<"\\title{", "t">>,
         <<"\\begin{document}">>, <<"t">>, <<"\\end{document}">> >> }

\* What can go wrong in a call: nothing; OpenAI raises in
\* generate_content; mkdir raises in setup_project; pdflatex exits with an
\* error; OpenAI raises while the README is written; git push fails.
PaperFaults == {"none", "content", "mkdir", "pdflatex", "readme", "push"}

\* The times a PDF can carry.
PdfStamps == {"s1", "s2"}

\* In the workflow a platform is switched off, or enabled and configured.
WorkflowPlatformStates ==
    {st \in PlatformStates : st.configured \/ (~st.enabled /\ st.post = "false")}

\* The state outside the call: the cache file, the directories and files
\* below base_dir, and GitHub.
World == [name_cache_file |-> name_cache_file, dirs |-> dirs, files |-> files, github |-> github]

\* content if requested, and None otherwise
ContentIf(create, reply) == IF create THEN Some(reply) ELSE None

\* generate_paper leaves through its except clause: the error is logged
\* and raised again.
PaperRaised(mapping, w, name, step, pdf, posts) ==
    [prompt_to_name |-> mapping, world |-> w, name |-> name, status |-> "raised",
     failed |-> step, pdf |-> pdf, posts |-> posts, result |-> None]

\* generate_paper returns its dictionary.
PaperReturned(mapping, w, paper_name, pdf, posts) ==
    [prompt_to_name |-> mapping, world |-> w, name |-> Some(paper_name), status |-> "ok",
     failed |-> "-", pdf |-> pdf, posts |-> posts,
     result |-> Some([paper_name |-> paper_name, repo_url |-> HtmlUrl(paper_name),
                      project_dir |-> ProjectDir(paper_name)])]

\* await value: only an awaitable can be awaited; a bool cannot, and the
\* await expression raises TypeError.
AwaitRaises(value) == value \in BOOLEAN

\* The last statements of generate_paper: when posting is requested and
\* the generator has a SocialMediaManager, post_update is called and the
\* value it returns is awaited; then the result is returned.
SocialStep(mapping, w, paper_name, pdf, request, config, outcome) ==
    IF request.post_social /\ config.enable_social_media
    THEN LET posted == PostUpdate([kind |-> "app", enabled |-> TRUE,
                                   platforms |-> AppPlatforms(TRUE, outcome.platforms)])
         IN  IF AwaitRaises(posted.success)
             THEN PaperRaised(mapping, w, Some(paper_name), "social", pdf, posted.posts)
             ELSE PaperReturned(mapping, w, paper_name, pdf, posted.posts)
    ELSE PaperReturned(mapping, w, paper_name, pdf, <<>>)

\* generate_paper from the repository step on.
RepoStep(mapping, w, paper_name, pdf, request, config, outcome) ==
    LET repo == setup_repo(w.files, w.github, paper_name,
                           outcome.fault # "readme", outcome.fault # "push")
        w1 == [w EXCEPT !.files = repo.files, !.github = repo.github]
    IN  IF repo.raised THEN PaperRaised(mapping, w1, Some(paper_name), "repo", pdf, <<>>)
        ELSE SocialStep(mapping, w1, paper_name, pdf, request, config, outcome)

\* generate_paper from the PDF step on: the value generate_pdf_from_latex
\* returns is not looked at.
PdfStep(mapping, w, paper_name, latex_content, request, config, outcome) ==
    IF Truthy(latex_content)
    THEN LET made == generate_pdf_from_latex(w.files, paper_name,
                                             outcome.fault # "pdflatex", outcome.stamp)
         IN  RepoStep(mapping, [w EXCEPT !.files = made.files], paper_name,
                      IF made.result THEN "ok" ELSE "failed", request, config, outcome)
    ELSE RepoStep(mapping, w, paper_name, "skipped", request, config, outcome)

\* PaperGenerator().generate_paper(...): the generator is built, and with
\* it a NameTracker that loads the cache file; the contents requested are
\* generated; setup_project is called with the regenerate flags of the
\* settings; then the PDF, the repository and the social step follow.
GeneratePaper(w, request, config, outcome, date) ==
    LET mapping == LoadCache(w.name_cache_file, TRUE)
        md_content == ContentIf(request.create_markdown, outcome.md_reply)
        latex_content == ContentIf(request.create_latex, outcome.latex_reply)
        existing_name == get_existing_name(mapping, request.prompt)
        paper_name == ResolveName(mapping, request.prompt, date)
        stored == IF ReusesName(existing_name) THEN mapping
                  ELSE store_name(mapping, request.prompt, paper_name)
        w1 == IF ReusesName(existing_name) THEN w
              ELSE [w EXCEPT !.name_cache_file = SaveCache(stored)]
        w2 == [w1 EXCEPT !.dirs = @ \cup {ProjectDir(paper_name)},
                         !.files = WriteVariants(@, paper_name, md_content, latex_content,
                                                 config.regenerate_existing_markdown,
                                                 config.regenerate_existing_latex)]
    IN  IF outcome.fault = "content" /\ (request.create_markdown \/ request.create_latex)
        THEN PaperRaised(mapping, w, None, "content", "skipped", <<>>)
        ELSE IF outcome.fault = "mkdir"
        THEN PaperRaised(stored, w1, None, "setup_project", "skipped", <<>>)
        ELSE PdfStep(stored, w2, paper_name, latex_content, request, config, outcome)

\* The calls of generate_paper since the last other operation.
Runs == IF last.op = "generate_paper" THEN last.run ELSE 0

\* The generate command of the CLI and the POST route of the API: the
\* request carries its own regenerate flags, which are not passed on;
\* generate_paper is called and returns or raises.
Generate(request, config, outcome) ==
    /\ Runs < MaxRuns
    /\ \E done \in {GeneratePaper(World, request, config, outcome, Calendar(now))} :
        /\ prompt_to_name' = done.prompt_to_name
        /\ name_cache_file' = done.world.name_cache_file
        /\ dirs' = done.world.dirs
        /\ files' = done.world.files
        /\ github' = done.world.github
        /\ last' = [op |-> "generate_paper", run |-> Runs + 1,
                    request |-> request, config |-> config, outcome |-> outcome,
                    md_content |-> ContentIf(request.create_markdown, outcome.md_reply),
                    latex_content |-> ContentIf(request.create_latex, outcome.latex_reply),
                    before |-> files,
                    status |-> done.status, failed |-> done.failed, pdf |-> done.pdf,
                    posts |-> done.posts, result |-> done.result]
        /\ returned' = IF done.name.some
                       THEN returned \cup {<<request.prompt, done.name.value>>}
                       ELSE returned
    /\ UNCHANGED now

\* The requests: the prompt, what to create, whether to post, and the
\* request's regenerate flags (None when the option is not given).
Requests(creates, socials, regenerates) ==
    [prompt : {PaperPrompt}, create_markdown : creates, create_latex : creates,
     post_social : socials,
     regenerate_markdown : regenerates, regenerate_latex : regenerates]

\* The settings of the process.
Configs(regenerates_md, regenerates_latex, socials) ==
    [regenerate_existing_markdown : regenerates_md,
     regenerate_existing_latex : regenerates_latex,
     enable_social_media : socials]

\* What the world outside does during a call.
Outcomes(faults, md_replies, latex_replies, stamps, platform_states) ==
    [fault : faults, md_reply : md_replies, latex_reply : latex_replies,
     stamp : stamps, platforms : [1..3 -> platform_states]]

\* A platform that is switched off.
PlatformOff == [enabled |-> FALSE, configured |-> FALSE, post |-> "false"]

\* A body of LaTeX without a preamble, and the same as an Optional.
LatexBody == << <<"t">> >>

\* NameTracker.setup_project called on its own, before the workflow runs
\* on the project: it leaves nothing, or a .tex file as it was passed.
SetupAlone ==
    /\ last.op = "none"
    /\ SetupCalls({PaperPrompt}, {None, Some(LatexBody)}, {FALSE})

\* The workflow without social posting, where every external step can fail.
PaperCalls ==
    \E request \in Requests(BOOLEAN, {FALSE}, {None}),
       config \in Configs({FALSE}, BOOLEAN, {FALSE}),
       outcome \in Outcomes(PaperFaults, {<< <<"x">> >>}, LatexReplies, PdfStamps, {PlatformOff}) :
        Generate(request, config, outcome)

NextPaper ==
    \/ SetupAlone
    \/ PaperCalls

\* Up to MaxRuns calls of generate_paper for one prompt on one day.
SpecPaper == Init /\ [][NextPaper]_vars

\* The request's regenerate flags against those of the settings; no
\* external step fails.
RequestCalls ==
    \E request \in Requests({TRUE}, {FALSE}, {None, Some(TRUE), Some(FALSE)}),
       config \in Configs(BOOLEAN, BOOLEAN, {FALSE}),
       outcome \in Outcomes({"none"}, MarkdownReplies, {LatexBody}, PdfStamps, {PlatformOff}) :
        Generate(request, config, outcome)

NextRequest == RequestCalls

SpecRequest == Init /\ [][NextRequest]_vars

\* The workflow with the social step; no other step fails.
PostingCalls ==
    \E request \in Requests({TRUE}, BOOLEAN, {None}),
       config \in Configs({FALSE}, {FALSE}, BOOLEAN),
       outcome \in Outcomes({"none"}, {<< <<"x">> >>}, {LatexBody}, {"s1"}, WorkflowPlatformStates) :
        Generate(request, config, outcome)

NextPosting == PostingCalls

SpecPosting == Init /\ [][NextPosting]_vars

---------------------------------------------------------------------------
(* The delete command and the DELETE route *)

\* The paper names given to delete: the project of the workflow, and a
\* name nothing has.
DeleteNames == {generate_paper_name(PaperPrompt, Calendar(0)), <<"z">>}

\* What the user answers to the two confirmation prompts of the command,
\* and whether GitHub can be reached.
DeleteAnswers == [confirm_local : BOOLEAN, confirm_repo : BOOLEAN, github_ok : BOOLEAN]

\* shutil.rmtree(project_dir)
RmTree(w, paper_name) ==
    [w EXCEPT !.dirs = @ \ {ProjectDir(paper_name)},
              !.files = [path \in {q \in DOMAIN @ : q[1] # paper_name} |-> @[path]]]

\* repo.delete()
RepoDelete(w, paper_name) ==
    [w EXCEPT !.github = [name \in DOMAIN @ \ {paper_name} |-> @[name]]]

\* The first half of both handlers: the local directory is removed when
\* it exists and, in the command without --force, the user confirms.
DeleteLocal(w, paper_name, asks, answers) ==
    IF ProjectDir(paper_name) \in w.dirs /\ (asks => answers.confirm_local)
    THEN [world |-> RmTree(w, paper_name), local_deleted |-> TRUE]
    ELSE [world |-> w, local_deleted |-> FALSE]

\* The second half: the repository is looked up and deleted when
\* delete_repo is set, and also when nothing was deleted locally and the
\* directory does not exist; the command without --force asks first.
DeleteRepo(w, paper_name, delete_repo, local_deleted, asks, answers) ==
    IF delete_repo \/ (~local_deleted /\ ProjectDir(paper_name) \notin w.dirs)
    THEN IF ~answers.github_ok
         THEN [world |-> w, repo_deleted |-> FALSE, raised |-> ~local_deleted]
         ELSE IF paper_name \in DOMAIN w.github /\ (asks => answers.confirm_repo)
         THEN [world |-> RepoDelete(w, paper_name), repo_deleted |-> TRUE, raised |-> FALSE]
         ELSE [world |-> w, repo_deleted |-> FALSE, raised |-> FALSE]
    ELSE [world |-> w, repo_deleted |-> FALSE, raised |-> FALSE]

\* delete of the CLI (interface "cli") and delete_paper of the API
\* (interface "api", which never asks and raises after a GitHub error
\* only without force).
Delete(interface, paper_name, delete_repo, force, answers) ==
    LET asks == interface = "cli" /\ ~force
        local == DeleteLocal(World, paper_name, asks, answers)
        repo == DeleteRepo(local.world, paper_name, delete_repo, local.local_deleted, asks, answers)
        raised == \/ repo.raised /\ (interface = "cli" \/ ~force)
                  \/ ~local.local_deleted /\ ~repo.repo_deleted
    IN  /\ dirs' = repo.world.dirs
        /\ files' = repo.world.files
        /\ github' = repo.world.github
        /\ last' = [op |-> "delete", interface |-> interface, paper_name |-> paper_name,
                    delete_repo |-> delete_repo, force |-> force, answers |-> answers,
                    had_dir |-> ProjectDir(paper_name) \in dirs,
                    had_repo |-> paper_name \in DOMAIN github,
                    local_deleted |-> local.local_deleted,
                    repo_deleted |-> repo.repo_deleted,
                    status |-> IF raised THEN "raised" ELSE "ok"]
        /\ UNCHANGED <<prompt_to_name, name_cache_file, now, returned>>

DeleteCalls ==
    \E interface \in {"cli", "api"}, paper_name \in DeleteNames,
       delete_repo \in BOOLEAN, force \in BOOLEAN, answers \in DeleteAnswers :
        Delete(interface, paper_name, delete_repo, force, answers)

\* The workflow that makes the project and its repository.
CreateCalls ==
    \E request \in Requests({TRUE}, {FALSE}, {None}),
       config \in Configs({FALSE}, {FALSE}, {FALSE}),
       outcome \in Outcomes({"none"}, {<< <<"x">> >>}, {LatexBody}, {"s1"}, {PlatformOff}) :
        Generate(request, config, outcome)

NextDelete ==
    \/ CreateCalls
    \/ DeleteCalls

\* Projects are generated and deleted.
SpecDelete == Init /\ [][NextDelete]_vars

---------------------------------------------------------------------------
(* Two requests of the POST route in one server process *)

\* The route is a coroutine: a request runs until it awaits OpenAI, and
\* the other request can run meanwhile.  Each request builds its own
\* PaperGenerator and with it its own NameTracker.

\* The prompts of the two requests.
RequestPrompts == {<<"a">>, <<" ", "A">>, <<"b">>}

\* What name_cache.json holds when the server starts: nothing, or the
\* name of an earlier paper.
EarlierCaches == {NoFile, SaveCache(store_name(<<>>, <<"c">>, <<"c", "_", "0">>))}

\* A request that has not started.
NewRequest(prompt) ==
    [prompt |-> prompt, pc |-> "new", prompt_to_name |-> <<>>,
     name |-> <<>>, resolved |-> "-", status |-> "-"]

InitConcurrent ==
    /\ prompt_to_name = <<>>
    /\ name_cache_file \in EarlierCaches
    /\ dirs = {}
    /\ files = <<>>
    /\ now = 0
    /\ last \in {[op |-> "requests", requests |-> <<NewRequest(p1), NewRequest(p2)>>] :
                    p1 \in RequestPrompts, p2 \in RequestPrompts}
    /\ returned = {}
    /\ github = <<>>

\* Request i starts: PaperGenerator() builds the NameTracker, which loads
\* the cache file; generate_paper awaits the content.
StartRequest(i) ==
    /\ last.op = "requests"
    /\ last.requests[i].pc = "new"
    /\ last' = [last EXCEPT !.requests[i].pc = "content",
                            !.requests[i].prompt_to_name = LoadCache(name_cache_file, TRUE)]
    /\ UNCHANGED <<prompt_to_name, name_cache_file, dirs, files, now, returned, github>>

\* The content of request i arrives: setup_project runs with the
\* request's NameTracker, then setup_repo up to the README it awaits.
SetupRequest(i) ==
    /\ last.op = "requests"
    /\ last.requests[i].pc = "content"
    /\ \E request \in {last.requests[i]} :
       \E paper_name \in {ResolveName(request.prompt_to_name, request.prompt, Calendar(now))} :
          LET reuse == ReusesName(get_existing_name(request.prompt_to_name, request.prompt))
              stored == IF reuse THEN request.prompt_to_name
                        ELSE store_name(request.prompt_to_name, request.prompt, paper_name)
          IN  /\ name_cache_file' = IF reuse THEN name_cache_file ELSE SaveCache(stored)
              /\ dirs' = dirs \cup {ProjectDir(paper_name)}
              /\ files' = EnsureGitignore(
                              WriteVariants(files, paper_name, Some(<< <<"x">> >>), None,
                                            FALSE, FALSE), paper_name)
              /\ returned' = returned \cup {<<request.prompt, paper_name>>}
              /\ last' = [last EXCEPT !.requests[i].pc = "repo",
                                      !.requests[i].prompt_to_name = stored,
                                      !.requests[i].name = paper_name,
                                      !.requests[i].resolved =
                                          IF reuse THEN "reused" ELSE "generated"]
    /\ UNCHANGED <<prompt_to_name, now, github>>

\* The README of request i arrives: setup_repo goes on, and generate_paper
\* returns or raises.
FinishRequest(i) ==
    /\ last.op = "requests"
    /\ last.requests[i].pc = "repo"
    /\ \E repo \in {setup_repo(files, github, last.requests[i].name, TRUE, TRUE)} :
        /\ files' = repo.files
        /\ github' = repo.github
        /\ last' = [last EXCEPT !.requests[i].pc = "done",
                                !.requests[i].status =
                                    IF repo.raised THEN "raised" ELSE "ok"]
    /\ UNCHANGED <<prompt_to_name, name_cache_file, dirs, now, returned>>

NextConcurrent ==
    \/ Tick
    \/ \E i \in {1, 2} : StartRequest(i)
    \/ \E i \in {1, 2} : SetupRequest(i)
    \/ \E i \in {1, 2} : FinishRequest(i)

\* Two requests are handled concurrently.
SpecConcurrent == InitConcurrent /\ [][NextConcurrent]_vars

---------------------------------------------------------------------------
(* Vocabulary of the properties *)

\* A step that is a call of setup_project (the clock stands still in it).
SetupStep == last'.op = "setup_project" /\ now' = now

\* The entries of a mapping under one key.
EntriesFor(mapping, key) ==
    {<<k, mapping[k]>> : k \in {x \in DOMAIN mapping : x = key}}

\* A prompt without letter case and without the shape of its whitespace:
\* lower-cased, no whitespace at the ends, one space for every run inside.
Canonical(p) ==
    LET kept == SelectSeq([i \in 1..Len(p) |-> i],
                   LAMBDA i :
                       \/ p[i] \notin SpaceChars
                       \/ /\ i > 1
                          /\ p[i - 1] \notin SpaceChars
                          /\ \E j \in (i + 1)..Len(p) : p[j] \notin SpaceChars)
    IN  [k \in 1..Len(kept) |->
            IF p[kept[k]] \in SpaceChars THEN " " ELSE LowerChar(p[kept[k]])]

\* Two prompts that differ only in letter case or whitespace runs.
SameUpToCaseAndSpace(p, q) == Canonical(p) = Canonical(q)

---------------------------------------------------------------------------
(* Identity *)

\* C1 (identity idempotence): every call of setup_project with one prompt
\* has returned the same name, and after each of them the mapping holds
\* exactly one entry under the prompt's fingerprint, the name returned.
C1_IdentityIdempotence ==
    /\ \A r1 \in returned, r2 \in returned : r1[1] = r2[1] => r1[2] = r2[2]
    /\ \A r \in returned :
          LET entries == EntriesFor(prompt_to_name, GeneratePromptKey(r[1]))
          IN  /\ Cardinality(entries) = 1
              /\ \A e \in entries : e[2] = r[2]

\* C1 witness: the same prompt, and no other, called again on a later day;
\* the call returned the name of the first day.
C1_Witness ==
    /\ last.op = "setup_project"
    /\ last.resolved = "reused"
    /\ now > 0
    /\ returned = {<<last.prompt, generate_paper_name(last.prompt, Calendar(0))>>}
    /\ DOMAIN prompt_to_name = {GeneratePromptKey(last.prompt)}

\* C2 (name stability): a call of setup_project keeps every entry of the
\* mapping; a prompt that differs only in letter case or whitespace runs
\* from one that has a name gets that name, and none is generated; the
\* mapping grows by exactly the entry of a prompt that had none.
C2_NameStability ==
    [][SetupStep =>
        /\ \A k \in DOMAIN prompt_to_name :
              /\ k \in DOMAIN prompt_to_name'
              /\ prompt_to_name'[k] = prompt_to_name[k]
        /\ \A r \in returned :
              SameUpToCaseAndSpace(r[1], last'.prompt) =>
                  /\ last'.name = r[2]
                  /\ last'.resolved = "reused"
        /\ IF GeneratePromptKey(last'.prompt) \in DOMAIN prompt_to_name
           THEN prompt_to_name' = prompt_to_name
           ELSE /\ DOMAIN prompt_to_name' =
                       DOMAIN prompt_to_name \cup {GeneratePromptKey(last'.prompt)}
                /\ Cardinality(DOMAIN prompt_to_name') =
                       Cardinality(DOMAIN prompt_to_name) + 1
    ]_vars

\* C2 witness: on a later day, after another prompt got its own entry, a
\* prompt in other letter case and whitespace got the name of the first.
C2_Witness ==
    /\ last.op = "setup_project"
    /\ last.prompt = <<" ", "A", "\t", " ", "a">>
    /\ last.resolved = "reused"
    /\ now > 0
    /\ <<<<"a", " ", "a">>, last.name>> \in returned
    /\ last.name = generate_paper_name(<<"a", " ", "a">>, Calendar(0))
    /\ Cardinality(DOMAIN prompt_to_name) = 2

---------------------------------------------------------------------------
(* Artifact policy *)

Variants == {"md", "tex"}

\* The content, the regenerate flag and the log line of a variant in a call.
ContentOf(call, v) == IF v = "md" THEN call.md_content ELSE call.latex_content

FlagOf(call, v) ==
    IF v = "md" THEN call.regenerate_markdown ELSE call.regenerate_latex

OutcomeOf(call, v) == IF v = "md" THEN call.md ELSE call.tex

\* base_directory/name/name.md and base_directory/name/name.tex
PathOf(name, v) == <<name, name \o <<IF v = "md" THEN ".md" ELSE ".tex">>>>

\* The files of one variant, in whatever directory.
IsVariantFile(path, v) ==
    path[2][Len(path[2])] = (IF v = "md" THEN ".md" ELSE ".tex")

\* Content provided: a string that is not empty.
HasContent(c) == c.some /\ c.value # <<>>

\* The file at `path` is after the step what it was before it.
SameFile(path) ==
    /\ path \in DOMAIN files' <=> path \in DOMAIN files
    /\ path \in DOMAIN files => files'[path] = files[path]

\* The call returned (base_directory/name, name), and the directory exists.
ReturnedProject(call) ==
    /\ call.status = "ok"
    /\ call.dir = <<call.name>>
    /\ call.dir \in dirs'
    /\ prompt_to_name'[GeneratePromptKey(call.prompt)] = call.name

\* C3 (regenerate policy, keep): a call with content for a variant whose
\* file exists, with the variant's regenerate flag false, leaves the file's
\* content as it was.
C3_KeepExisting ==
    [][SetupStep =>
        \A v \in Variants :
            LET path == PathOf(last'.name, v)
            IN  (/\ ContentOf(last', v).some
                 /\ path \in DOMAIN files
                 /\ ~FlagOf(last', v))
                => /\ path \in DOMAIN files'
                   /\ files'[path] = files[path]
    ]_vars

\* C3 witness: both files were kept, each against another content.
C3_Witness ==
    /\ last.op = "setup_project"
    /\ last.md = "skipped" /\ last.md_content = Some(<<"y">>)
    /\ files[PathOf(last.name, "md")] = <<"x">>
    /\ last.tex = "skipped" /\ last.latex_content = Some(<<"x">>)
    /\ files[PathOf(last.name, "tex")] = <<"y">>

\* C4 (regenerate policy, overwrite): a call with content for a variant
\* whose file exists, with the variant's regenerate flag true, leaves the
\* file holding exactly the content passed.
C4_OverwriteExisting ==
    [][SetupStep =>
        \A v \in Variants :
            LET path == PathOf(last'.name, v)
            IN  (/\ HasContent(ContentOf(last', v))
                 /\ path \in DOMAIN files
                 /\ FlagOf(last', v))
                => /\ path \in DOMAIN files'
                   /\ files'[path] = ContentOf(last', v).value
    ]_vars

\* C4 witness: both files were overwritten, by different contents.
C4_Witness ==
    /\ last.op = "setup_project"
    /\ last.md = "overwritten" /\ last.md_content = Some(<<"y">>)
    /\ files[PathOf(last.name, "md")] = <<"y">>
    /\ last.tex = "overwritten" /\ last.latex_content = Some(<<"x">>)
    /\ files[PathOf(last.name, "tex")] = <<"x">>

\* C5 as claimed (create case, every string): a call with a string as
\* content of a variant whose file does not exist returns
\* (base_directory/name, name), the directory exists and the file exists
\* and holds exactly the string, whatever the regenerate flag is.
C5_CreateEveryString ==
    [][SetupStep =>
        \A v \in Variants :
            LET path == PathOf(last'.name, v)
            IN  (ContentOf(last', v).some /\ path \notin DOMAIN files)
                => /\ ReturnedProject(last')
                   /\ path \in DOMAIN files'
                   /\ files'[path] = ContentOf(last', v).value
    ]_vars

\* C5 amended (create case, every non-empty string): as C5, for every
\* string that is not empty.
C5_CreateNonEmpty ==
    [][SetupStep =>
        \A v \in Variants :
            LET path == PathOf(last'.name, v)
            IN  (HasContent(ContentOf(last', v)) /\ path \notin DOMAIN files)
                => /\ ReturnedProject(last')
                   /\ path \in DOMAIN files'
                   /\ files'[path] = ContentOf(last', v).value
    ]_vars

\* C5 witness: both files were created, one with the regenerate flag false
\* and one with it true.
C5_Witness ==
    /\ last.op = "setup_project"
    /\ last.status = "ok"
    /\ last.dir \in dirs
    /\ last.md = "created" /\ ~last.regenerate_markdown
    /\ last.md_content = Some(<<"x">>)
    /\ files[PathOf(last.name, "md")] = <<"x">>
    /\ last.tex = "created" /\ last.regenerate_latex
    /\ last.latex_content = Some(<<"y">>)
    /\ files[PathOf(last.name, "tex")] = <<"y">>

\* C6 (no content, no effect): a call without content for a variant (None,
\* or the empty string) creates no file of that variant and leaves every
\* file of that variant as it was; it returns, the project directory
\* exists and the name is the project's.
C6_NoContentNoOp ==
    [][SetupStep =>
        \A v \in Variants :
            ~HasContent(ContentOf(last', v))
            => /\ \A path \in DOMAIN files \cup DOMAIN files' :
                      IsVariantFile(path, v) => SameFile(path)
               /\ SameFile(PathOf(last'.name, v))
               /\ ReturnedProject(last')
    ]_vars

\* C6 witness: a call without Markdown content, whose Markdown file exists,
\* and with the empty string as LaTeX content, whose LaTeX file does not.
C6_Witness ==
    /\ last.op = "setup_project"
    /\ last.status = "ok"
    /\ last.md_content = None
    /\ last.latex_content = Some(<<>>)
    /\ PathOf(last.name, "md") \in DOMAIN files
    /\ PathOf(last.name, "tex") \notin DOMAIN files
    /\ last.dir \in dirs

\* The policy table: the outcome of a variant from its own content, the
\* existence of its own file and its own regenerate flag.
PolicyOutcome(content, exists, regenerate) ==
    CASE ~HasContent(content) -> "absent"
      [] HasContent(content) /\ ~exists -> "created"
      [] HasContent(content) /\ exists /\ regenerate -> "overwritten"
      [] OTHER -> "skipped"

\* C7 (per-variant independence): the outcome of each variant, and what its
\* file holds after the call, follow from that variant's content, the
\* existence of that variant's file and that variant's regenerate flag.
C7_VariantIndependence ==
    [][SetupStep =>
        \A v \in Variants :
            LET path == PathOf(last'.name, v)
                outcome == PolicyOutcome(ContentOf(last', v), path \in DOMAIN files,
                                         FlagOf(last', v))
            IN  /\ OutcomeOf(last', v) = outcome
                /\ IF outcome \in {"created", "overwritten"}
                   THEN /\ path \in DOMAIN files'
                        /\ files'[path] = ContentOf(last', v).value
                   ELSE SameFile(path)
    ]_vars

\* C7 witness: in one call, with the same content for both variants, the
\* Markdown file was overwritten and the LaTeX file was kept.
C7_Witness ==
    /\ last.op = "setup_project"
    /\ last.md_content = Some(<<"y">>) /\ last.latex_content = Some(<<"y">>)
    /\ last.regenerate_markdown /\ ~last.regenerate_latex
    /\ last.md = "overwritten" /\ last.tex = "skipped"
    /\ files[PathOf(last.name, "md")] = <<"y">>
    /\ files[PathOf(last.name, "tex")] = <<"x">>

---------------------------------------------------------------------------
(* Names *)

\* A call of generate_paper_name has returned.
NameReturned == last.op = "generate_paper_name" /\ last.status = "ok"

\* ^[a-z0-9_]+_\d{6}$
MatchesNamePattern(name) ==
    LET n == Len(name)
    IN  /\ n >= 8
        /\ \A i \in 1..(n - 7) : name[i] \in LowerLetters \cup Digits \cup {"_"}
        /\ name[n - 6] = "_"
        /\ \A i \in (n - 5)..n : name[i] \in Digits

\* C8 (name constraints): the name generate_paper_name returns matches
\* ^[a-z0-9_]+_\d{6}$ and is at most 30 + 7 characters long.
C8_NameConstraints ==
    NameReturned =>
        /\ MatchesNamePattern(last.name)
        /\ Len(last.name) <= SlugLimit + 7

\* C9 (underscore structure): the name generate_paper_name returns has no
\* leading underscore, no trailing underscore and no two adjacent
\* underscores.
C9_UnderscoreStructure ==
    NameReturned =>
        /\ last.name[1] # "_"
        /\ last.name[Len(last.name)] # "_"
        /\ \A i \in 1..(Len(last.name) - 1) :
              ~(last.name[i] = "_" /\ last.name[i + 1] = "_")

\* C10 (empty-slug fallback): for a prompt whose slug is empty after
\* cleaning, generate_paper_name returns a name with a non-empty slug part
\* that matches the name pattern: more than "_" and the date stamp.
C10_EmptySlugFallback ==
    (NameReturned /\ Slug(last.prompt) = <<>>) =>
        /\ MatchesNamePattern(last.name)
        /\ Len(last.name) > 7

---------------------------------------------------------------------------
(* Fingerprint *)

\* A call of _generate_prompt_key has returned.
KeyReturned == last.op = "_generate_prompt_key" /\ last.status = "ok"

\* The normal form of every prompt up to one character shorter than the
\* longest.
CanonicalOf == [q \in StringsOver(KeyAlphabet, KeyLen - 1) |-> Canonical(q)]

\* C11 (fingerprint stability): the key of a prompt is the key of its
\* normalized form (trimmed, whitespace runs collapsed to one space,
\* lower-cased), and every prompt that differs from it only in letter
\* case, whitespace at the ends or the length and kind of whitespace runs
\* inside gets the same key.
C11_FingerprintStability ==
    KeyReturned =>
        LET normalized == Canonical(last.prompt)
        IN  /\ last.key = GeneratePromptKey(normalized)
            /\ \A q \in DOMAIN CanonicalOf :
                   CanonicalOf[q] = normalized => GeneratePromptKey(q) = last.key

\* C11 witness: a prompt with an upper-case letter and a run of a tab and
\* a space got the key of "a b".
C11_Witness ==
    /\ KeyReturned
    /\ last.prompt = <<"A", "\t", " ", "b">>
    /\ last.key = GeneratePromptKey(<<"a", " ", "b">>)
    /\ last.key # GeneratePromptKey(<<"a", "b">>)

---------------------------------------------------------------------------
(* The cache file *)

\* A call of store_name has returned, on its own or inside setup_project.
StoreReturned ==
    \/ last.op = "store_name" /\ last.status = "ok"
    \/ last.op = "setup_project" /\ last.status = "ok" /\ last.resolved = "generated"

\* C12 (write-through persistence): after every call of store_name that
\* returns, name_cache.json exists, parses, and holds the in-memory
\* mapping: a NameTracker constructed now loads exactly that mapping.
C12_WriteThrough ==
    StoreReturned =>
        /\ name_cache_file.exists
        /\ JsonParses(name_cache_file.text)
        /\ LoadCache(name_cache_file, TRUE) = prompt_to_name

\* name_cache.json is missing or does not parse as JSON.
BadCache(file) == ~file.exists \/ ~JsonParses(file.text)

\* C13 (corrupt or missing cache recovery): constructing a NameTracker on
\* a cache file that is missing, unreadable or unparseable returns with
\* an empty mapping, in which get_existing_name is absent for every
\* prompt; a call of store_name that follows returns, and the file then
\* parses and gives a fresh NameTracker the stored entry.
C13_CacheRecovery ==
    [][/\ (last'.op = "NameTracker" /\ (BadCache(name_cache_file) \/ last'.log = "error"))
          => /\ last'.status = "ok"
             /\ prompt_to_name' = <<>>
             /\ \A p \in StorePrompts : get_existing_name(prompt_to_name', p) = None
       /\ (/\ last.op = "NameTracker"
           /\ BadCache(name_cache_file) \/ last.log = "error"
           /\ last'.op = "store_name")
          => /\ last'.status = "ok"
             /\ JsonParses(name_cache_file'.text)
             /\ get_existing_name(LoadCache(name_cache_file', TRUE), last'.prompt)
                    = Some(last'.name)
    ]_vars

\* C17 (read-only accessors): a call of get_existing_name or has_name
\* leaves the in-memory mapping, name_cache.json, the project directories
\* and their files as they were.
C17_ReadOnlyAccessors ==
    [][last'.op \in {"get_existing_name", "has_name"} =>
          UNCHANGED <<prompt_to_name, name_cache_file, dirs, files>>
    ]_vars

\* C17 witness: get_existing_name found a name, with a cache file and a
\* project directory with files in place.
C17_Witness ==
    /\ last.op = "get_existing_name"
    /\ last.result = Some(<<"n">>)
    /\ name_cache_file.exists
    /\ dirs # {}
    /\ files # <<>>

---------------------------------------------------------------------------
(* Calls repeated *)

\* Two calls of setup_project with identical arguments.
SameArguments(c1, c2) ==
    /\ c1.op = "setup_project" /\ c2.op = "setup_project"
    /\ c1.prompt = c2.prompt
    /\ c1.md_content = c2.md_content
    /\ c1.latex_content = c2.latex_content
    /\ c1.regenerate_markdown = c2.regenerate_markdown
    /\ c1.regenerate_latex = c2.regenerate_latex

\* What the file of a variant held when the call began.
BeforeOf(call, v) == IF v = "md" THEN call.md ELSE call.tex

\* C14 (directory-level idempotence): a call of setup_project that returns
\* after a call with identical arguments that returned gives the same
\* name and leaves the mapping, the cache file, the directories, the set
\* of files and the content of every file as the first call left them.
C14_DirectoryIdempotence ==
    [][(/\ SetupStep
        /\ SameArguments(last, last')
        /\ last.status = "ok" /\ last'.status = "ok")
       => /\ last'.name = last.name
          /\ UNCHANGED <<prompt_to_name, name_cache_file, dirs, files>>
    ]_vars

\* C14 witness: on a later day, a call with both contents and the Markdown
\* flag true returned after an identical call that returned; the Markdown
\* file holds the content passed, and the LaTeX file, left empty by a
\* failed write before the two calls, is as it was.
C14_Witness ==
    /\ last.op = "setup_project"
    /\ last.status = "ok" /\ last.after = "ok"
    /\ now > 0
    /\ last.name = generate_paper_name(last.prompt, Calendar(0))
    /\ last.regenerate_markdown /\ ~last.regenerate_latex
    /\ last.md_content = Some(<<"x", "y">>) /\ last.md = Some(<<"x", "y">>)
    /\ last.latex_content = Some(<<"x">>) /\ last.tex = Some(<<>>)
    /\ files[PathOf(last.name, "md")] = <<"x", "y">>
    /\ files[PathOf(last.name, "tex")] = <<>>

\* C20 (recovery by re-run): a call of setup_project that returns after a
\* call with identical arguments that raised resolves to the same name,
\* and the file of every variant with content then holds the content
\* passed, or, when the regenerate flag is false and the file existed
\* before the failed call, what it held then.
C20_RecoveryByRerun ==
    [][(/\ SetupStep
        /\ SameArguments(last, last')
        /\ last.status = "raised" /\ last'.status = "ok")
       => /\ last'.name = last.name
          /\ \A v \in Variants :
                HasContent(ContentOf(last', v)) =>
                    LET path == PathOf(last'.name, v)
                    IN  /\ path \in DOMAIN files'
                        /\ \/ files'[path] = ContentOf(last', v).value
                           \/ /\ ~FlagOf(last', v)
                              /\ BeforeOf(last, v).some
                              /\ files'[path] = BeforeOf(last, v).value
    ]_vars

---------------------------------------------------------------------------
(* Failures and the order of the steps *)

\* The mapping holds the name of the call under the prompt's fingerprint.
NameStored(call) ==
    get_existing_name(prompt_to_name, call.prompt) = Some(call.name)

\* C15 (failure propagation): the step of setup_project in which mkdir or
\* write_text raises ends the call with the exception at its caller; it
\* leaves the mapping, the cache file, the directories and every other
\* file as they were, the name stored earlier in the call stays stored;
\* and the call takes no further step: what follows is a new call.
C15_FailurePropagation ==
    [][/\ (last.op = "setup_project" /\ last.status = "running" /\ last'.fault # "-")
          => /\ last'.status = "raised"
             /\ UNCHANGED <<prompt_to_name, name_cache_file, dirs>>
             /\ NameStored(last)'
             /\ IF last'.fault = "mkdir"
                THEN files' = files
                ELSE \A path \in DOMAIN files \cup DOMAIN files' :
                        path # PathOf(last.name, last'.fault) => SameFile(path)
       /\ (last.op = "setup_project" /\ last.status = "raised")
          => /\ last'.status = "running" /\ last'.pc = "resolve"
             /\ UNCHANGED <<prompt_to_name, name_cache_file, dirs, files>>
    ]_vars

\* C15 witness: the Markdown write of a call with both contents raised and
\* left a part of the content; the name generated in the call is stored,
\* the directory exists and there is no LaTeX file.
C15_Witness ==
    /\ last.op = "setup_project"
    /\ last.status = "raised" /\ last.fault = "md"
    /\ last.resolved = "generated" /\ NameStored(last)
    /\ last.dir \in dirs
    /\ HasContent(last.latex_content)
    /\ DOMAIN files = {PathOf(last.name, "md")}
    /\ files[PathOf(last.name, "md")] = <<"x">>

\* C16 (step ordering): a directory is created only in a call that has
\* resolved its name, and it is the directory of that name; a file is
\* written only in a call that has resolved its name and completed mkdir,
\* and in its directory; and a call completes its statements in the
\* order name resolution, mkdir, Markdown, LaTeX.
C16_StepOrdering ==
    [][/\ dirs' # dirs
          => /\ last.op = "setup_project" /\ last.status = "running"
             /\ "resolve" \in last.done
             /\ NameStored(last)
             /\ dirs' = dirs \cup {ProjectDir(last.name)}
       /\ files' # files
          => /\ last.op = "setup_project" /\ last.status = "running"
             /\ {"resolve", "mkdir"} \subseteq last.done
             /\ NameStored(last)
             /\ ProjectDir(last.name) \in dirs
             /\ \A path \in DOMAIN files \cup DOMAIN files' :
                   ~SameFile(path) => path[1] = last.name
       /\ last'.op = "setup_project"
          => /\ "mkdir" \in last'.done => "resolve" \in last'.done
             /\ "md" \in last'.done => "mkdir" \in last'.done
             /\ "tex" \in last'.done => "md" \in last'.done
    ]_vars

\* C16 witness: a call that generated its name is between the Markdown
\* block and the LaTeX block: the name is stored, the directory exists,
\* the Markdown file is written and the LaTeX file is not.
C16_Witness ==
    /\ last.op = "setup_project"
    /\ last.status = "running" /\ last.pc = "tex"
    /\ last.done = {"resolve", "mkdir", "md"}
    /\ last.resolved = "generated" /\ NameStored(last)
    /\ dirs = {ProjectDir(last.name)}
    /\ HasContent(last.latex_content)
    /\ DOMAIN files = {PathOf(last.name, "md")}
    /\ files[PathOf(last.name, "md")] = <<"x", "y">>

---------------------------------------------------------------------------
(* Social fan-out *)

\* A call of post_update has returned.
PostReturned == last.op = "post_update" /\ last.status = "ok"

\* The positions of the enabled and configured platforms of a manager.
ActivePositions(manager) ==
    {i \in 1..Len(manager.platforms) :
        manager.platforms[i].enabled /\ manager.platforms[i].configured}

\* C18 (social fan-out result): post_update has posted exactly once to
\* every enabled and configured platform and to no other, in list order,
\* whatever each post did; it returned True exactly when one of those
\* posts returned True; with no such platform it returned False and
\* posted nothing.
C18_SocialFanOut ==
    PostReturned =>
        LET platforms == last.manager.platforms
            active == ActivePositions(last.manager)
            at(i) == {k \in 1..Len(last.posts) : last.posts[k] = platforms[i].name}
        IN  /\ Len(last.posts) = Cardinality(active)
            /\ \A i \in active : Cardinality(at(i)) = 1
            /\ \A i \in active, j \in active :
                   i < j => \A k \in at(i), l \in at(j) : k < l
            /\ last.result = (\E i \in active : platforms[i].post = "true")
            /\ active = {} => (last.result = FALSE /\ last.posts = <<>>)

\* C18 witness: of three active platforms the first raised, the second
\* returned False and the third returned True; all were posted to and
\* post_update returned True.
C18_Witness ==
    /\ PostReturned
    /\ Len(last.manager.platforms) = 3
    /\ \A i \in 1..3 : i \in ActivePositions(last.manager)
    /\ last.manager.platforms[1].post = "raise"
    /\ last.manager.platforms[2].post = "false"
    /\ last.manager.platforms[3].post = "true"
    /\ last.posts = PlatformNames
    /\ last.result = TRUE

---------------------------------------------------------------------------
(* The shape of a restructured text *)

\* A call of restructure_latex_content has returned.
RestructureReturned ==
    last.op = "restructure_latex_content" /\ last.status = "ok"

\* The line is one of the three lines that delimit a document.
IsStructural(line) ==
    \/ StartsWith(line, "\\documentclass")
    \/ StartsWith(line, "\\begin{document}")
    \/ StartsWith(line, "\\end{document}")

\* The i-th line lies in the preamble of the text: after a \documentclass
\* line, with no \begin{document} line in between.
InPreamble(lines, i) ==
    \E j \in 1..(i - 1) :
        /\ StartsWith(lines[j], "\\documentclass")
        /\ \A k \in (j + 1)..(i - 1) : ~StartsWith(lines[k], "\\begin{document}")

\* The lines at the positions kept, in their order.
LinesAt(lines, kept) ==
    LET numbered == [i \in 1..Len(lines) |-> <<i, lines[i]>>]
        chosen == SelectSeq(numbered, LAMBDA p : p[1] \in kept)
    IN  [k \in 1..Len(chosen) |-> chosen[k][2]]

\* The metadata line of the command found in the preamble, the last one
\* when there are several; no line when there is none.
MetadataLine(lines, command) ==
    LET found == {i \in 1..Len(lines) :
                     /\ InPreamble(lines, i) /\ ~IsStructural(lines[i])
                     /\ StartsWith(lines[i], command)}
    IN  IF found = {} THEN <<>>
        ELSE <<lines[CHOOSE i \in found : \A j \in found : j <= i]>>

\* The body lines: the non-blank lines outside the preamble that do not
\* delimit the document.
BodyLines(lines) ==
    LinesAt(lines, {i \in 1..Len(lines) :
                       /\ ~InPreamble(lines, i) /\ ~IsStructural(lines[i])
                       /\ Strip(lines[i]) # <<>>})

\* How often the command occurs in the text, a count of substrings as
\* str.count makes it.
Occurrences(text, command) ==
    Cardinality(UNION {{<<i, j>> : j \in {k \in 1..Len(text[i]) : text[i][k] = command}} :
                          i \in 1..Len(text)})

\* The shape of the claim for the lines of an input, the code fences
\* taken away.
ExpectedShape(lines) ==
    LET metadata == MetadataLine(lines, "\\title{")
                    \o MetadataLine(lines, "\\author{")
                    \o MetadataLine(lines, "\\date{")
    IN  LatexPreamble
        \o metadata
        \o << <<"\\begin{document}">> >>
        \o (IF metadata # <<>> THEN << <<"\\maketitle">> >> ELSE <<>>)
        \o BodyLines(lines)
        \o << <<"\\end{document}">> >>

\* C19 (LaTeX restructuring shape): for every input text the text returned
\* is the fixed preamble, the \title, \author and \date lines found in the
\* preamble of the input, one \begin{document}, \maketitle when a metadata
\* line was found, the non-blank body lines of the input in their order
\* and one \end{document}; and \begin{document} and \end{document} each
\* occur exactly once in it.
C19_LatexShape ==
    RestructureReturned =>
        /\ last.out = ExpectedShape(clean_latex_content(last.content))
        /\ Occurrences(last.out, "\\begin{document}") = 1
        /\ Occurrences(last.out, "\\end{document}") = 1

---------------------------------------------------------------------------
(* Name uniqueness *)

\* C21 (name uniqueness): two prompts with different fingerprints have
\* never been given the same project name by setup_project, and so never
\* share a project directory.
C21_NameUniqueness ==
    \A e1 \in returned, e2 \in returned :
        GeneratePromptKey(e1[1]) # GeneratePromptKey(e2[1])
            => /\ e1[2] # e2[2]
               /\ ProjectDir(e1[2]) # ProjectDir(e2[2])

---------------------------------------------------------------------------
(* Truncation of the slug *)

\* The cleaned slug of a prompt, before it is shortened.
CleanedSlug(prompt) ==
    ReSubUnderscores(Lower(ReplaceSpace(ReSubNonWordSpace(prompt))))

\* The slug part of a name: what precedes the underscore and the six
\* digits of the day.
SlugPart(name) == SubSeq(name, 1, Len(name) - 7)

\* The positions, counted from 1, of the underscores among the first
\* SlugLimit characters.
UnderscoresWithinLimit(clean) ==
    {i \in 1..Min2(SlugLimit, Len(clean)) : clean[i] = "_"}

C28_RestructureIdempotent ==
    (last.op = "restructure_latex_content" /\ last.status = "again")
        => last.out = last.content

---------------------------------------------------------------------------
(* The paper generation workflow *)

\* A call of generate_paper has returned or raised.
PaperCalled == last.op = "generate_paper"

\* The name generate_paper worked with in its last call.
PaperName == ResolveName(prompt_to_name, last.request.prompt, Calendar(now))

\* C22 (request-level regenerate flag): when a request that carries a
\* regenerate flag for a variant has returned and the variant's file
\* existed before, the file holds the newly generated content if the
\* flag was true, and what it held before if the flag was false,
\* whatever the setting of the process is.  Stated for the Markdown
\* variant, which no later step of the workflow writes.
C22_RequestRegenerateFlag ==
    (PaperCalled /\ last.status = "ok" /\ last.request.regenerate_markdown.some
        /\ Exists(last.before, MdFile(PaperName)))
        => files[MdFile(PaperName)] =
               IF last.request.regenerate_markdown.value
               THEN last.md_content.value
               ELSE last.before[MdFile(PaperName)]

\* C23 (no partial success): when generate_paper has returned its result,
\* every step it ran has succeeded; the PDF step was skipped or has
\* produced the PDF.
C23_NoPartialSuccess ==
    (PaperCalled /\ last.status = "ok")
        => /\ last.failed = "-"
           /\ last.pdf \in {"skipped", "ok"}

\* C27 (kept LaTeX survives the workflow): when the .tex file existed
\* before a call that generated LaTeX content with regenerate_latex
\* false, and setup_project returned in that call, the file holds after
\* the call what it held before.
C27_KeptLatexSurvives ==
    (PaperCalled /\ last.failed \notin {"content", "setup_project"}
        /\ Truthy(last.latex_content)
        /\ ~last.config.regenerate_existing_latex
        /\ Exists(last.before, TexFile(PaperName)))
        => files[TexFile(PaperName)] = last.before[TexFile(PaperName)]

\* C29 (re-run of the whole workflow): a call of generate_paper that
\* follows a successful call with the same prompt, with both regenerate
\* settings false and every external service available, returns, and
\* returns the same paper name and repository URL.
C29_RerunSucceeds ==
    [][(/\ last.op = "generate_paper" /\ last.status = "ok"
        /\ last'.op = "generate_paper" /\ last'.run = last.run + 1
        /\ last'.request.prompt = last.request.prompt
        /\ ~last'.config.regenerate_existing_markdown
        /\ ~last'.config.regenerate_existing_latex
        /\ last'.outcome.fault = "none")
        => /\ last'.status = "ok"
           /\ last'.result = last.result]_vars

\* C30 (social posting is best-effort): when posting was requested, social
\* media is enabled and every earlier step succeeded, generate_paper has
\* returned its result, whatever the posts did.
C30_SocialBestEffort ==
    (PaperCalled /\ last.request.post_social /\ last.config.enable_social_media
        /\ last.failed \in {"-", "social"})
        => /\ last.status = "ok"
           /\ last.result.some

---------------------------------------------------------------------------
(* Deletion *)

\* C24 (repository deletion only on request): a delete that was not asked
\* to delete the repository, by --delete-repo or delete_repo=true, and in
\* which the user confirmed no deletion of the repository at a prompt,
\* leaves the GitHub repositories as they were.
C24_RepoDeletionOnRequest ==
    [][(/\ last'.op = "delete"
        /\ ~last'.delete_repo
        /\ ~(last'.interface = "cli" /\ ~last'.force /\ last'.answers.confirm_repo))
        => github' = github]_vars

---------------------------------------------------------------------------
(* Concurrent requests *)

\* C26 (no lost identity under concurrent requests): when two requests
\* for prompts with different fingerprints, both unknown before, have
\* completed, name_cache.json holds the name of both prompts.
C26_NoLostIdentity ==
    (/\ last.op = "requests"
     /\ \A i \in {1, 2} : last.requests[i].pc = "done"
                          /\ last.requests[i].resolved = "generated"
     /\ GeneratePromptKey(last.requests[1].prompt) # GeneratePromptKey(last.requests[2].prompt))
        => \A i \in {1, 2} :
              get_existing_name(LoadCache(name_cache_file, TRUE), last.requests[i].prompt)
                  = Some(last.requests[i].name)

=============================================================================
